---- MODULE Spec2Model ----
(***************************************************************************)
(* Model of the log normalisation, merge and statistics engine of the      *)
(* Claude Code history viewer (src-tauri).                                 *)
(*                                                                         *)
(*   SpecMerge     load_provider_messages: a provider parser yields a      *)
(*                 message list (Claude records, or a Codex rollout with   *)
(*                 its in-parser merge) and merge_tool_execution_messages  *)
(*                 folds tool results into the tool invocations.           *)
(***************************************************************************)
EXTENDS Integers, Sequences, FiniteSets, TLC

VARIABLES
    provider,   \* SpecMerge: which parser produced `messages`
    rollout,    \* SpecMerge: the lines of the Codex rollout file read so far
    messages,   \* SpecMerge: the provider's loaded message list
    merged,     \* SpecMerge: the list load_provider_messages returns
    timestamps, \* SpecDuration: the timestamps handed over, in seconds
    active_minutes, \* SpecDuration: what calculate_session_active_minutes returned
    entry,      \* SpecUsage: the log line whose token usage is extracted
    message_usage,  \* SpecUsage: what extract_token_usage returned for it
    global_usage,   \* SpecUsage: what extract_token_usage_from_global_entry returned
    file,       \* SpecSession: the lines of one Claude session file
    session_stats,  \* SpecSession: extract_session_token_stats_sync, per policy
    project_stats,  \* SpecSession: process_session_file_for_project_stats, per policy
    global_stats,   \* SpecSession: process_session_file_for_global_stats, per policy
    message_stats,  \* SpecSession: build_session_token_stats_from_messages, per policy
    store,      \* SpecStats: the sessions on disk, each with its project and lines
    query,      \* SpecStats: the policy, date range and providers of the last load
    session_view,   \* SpecStats: get_project_token_stats, per project
    project_view,   \* SpecStats: get_project_stats_summary, per project
    global_view,    \* SpecStats: get_global_stats_summary
    jsonl,    \* SpecLoad: the lines of one Claude session file
    clock,    \* SpecLoad: seconds since the file changed, as Utc::now() reads them
    history,    \* SpecLoad: the results of load_session_messages since the file changed
    response,   \* SpecLoad: the result of the last other command on the file
    codex_log,    \* SpecTokens: the lines of a Codex rollout read so far
    codex_messages,    \* SpecTokens: load_messages, its message list so far
    prev_input_tokens,    \* SpecTokens: load_messages, the input total of the last token_count
    prev_output_tokens,   \* SpecTokens: load_messages, the output total of the last token_count
    part_values,    \* OpenCode: the part files of one message, in filename order
    message_tokens,    \* OpenCode: the tokens object of the message file
    opencode_message,   \* OpenCode: the usage of the message load_messages built
    tracked,    \* tool statistics: the messages of the session tracked so far
    tool_usage,    \* tool statistics: name -> (usage_count, success_count) of track_tool_usage
    global_tool_usage,   \* tool statistics: the same map of track_tool_usage_from_global_entry
    rollouts,    \* Codex catalog: the recorded working directory of each rollout file
    catalog,    \* Codex catalog: the projects scan_projects returned
    listing,   \* Codex catalog: the sessions load_sessions returned for a project path
    corpus,    \* search: the session files of each provider, in the order a scan meets them
    search_response,   \* search: the command last run and what it returned
    platform,    \* rename: the target_os of the build
    session_file,    \* rename: the session file, absent or its records
    temp_file,    \* rename: the file at {file_path}.tmp
    written,    \* rename: the records the provider wrote to the session file, in order
    rename_call,    \* rename: the position of the running rename_session_native and what it holds
    ops,   \* rename: the calls that returned, with their results
    cache,    \* SpecMetadata: MetadataState.metadata, the cached user metadata
    user_data,    \* SpecMetadata: the file user-data.json
    user_data_tmp,    \* SpecMetadata: the file user-data.json.tmp
    updates,   \* SpecMetadata: the running metadata updates, each with its position
    scan_provider,    \* SpecScan: the provider of the project
    scan_store,    \* SpecScan: the sessions of the project as they are on disk
    scan_listed,    \* SpecScan: the sessions load_sessions has listed
    scan_result    \* SpecScan: what the statistics pass returned

mergeVars == <<provider, rollout, messages, merged>>
durationVars == <<timestamps, active_minutes>>
usageVars == <<entry, message_usage, global_usage>>
sessionVars == <<file, session_stats, project_stats, global_stats, message_stats>>
statsVars == <<store, query, session_view, project_view, global_view>>
loadVars == <<jsonl, clock, history, response>>
tokenVars == <<codex_log, codex_messages, prev_input_tokens, prev_output_tokens>>
partVars == <<part_values, message_tokens, opencode_message>>
toolVars == <<tracked, tool_usage, global_tool_usage>>
catalogVars == <<rollouts, catalog, listing>>
searchVars == <<corpus, search_response>>
renameVars == <<platform, session_file, temp_file, written, rename_call, ops>>
metaVars == <<cache, user_data, user_data_tmp, updates>>
scanVars == <<scan_provider, scan_store, scan_listed, scan_result>>
vars == <<mergeVars, durationVars, usageVars, sessionVars, statsVars, loadVars, tokenVars, partVars, toolVars, catalogVars, searchVars, renameVars, metaVars, scanVars>>

----------------------------------------------------------------------------
(* Generic helpers *)

SetMax(S) == CHOOSE x \in S : \A y \in S : y <= x
SetMin(S) == CHOOSE x \in S : \A y \in S : x <= y

RECURSIVE SeqSum(_)
SeqSum(s) == IF s = <<>> THEN 0 ELSE Head(s) + SeqSum(Tail(s))

----------------------------------------------------------------------------
(* Bounds *)

MaxMsgs == 3      \* messages a Claude session yields
MaxBlocks == 3    \* content blocks over all messages of a Claude session
MaxLines == 4     \* lines of a Codex rollout

MaxStamps == 4    \* timestamps handed to calculate_session_active_minutes

----------------------------------------------------------------------------
(* Content blocks and messages (serde_json values of ClaudeMessage.content) *)

NoId == "none"                       \* the key is absent from the block
CallIds == {"call_1", "call_2"}

TextBlock == [type |-> "text", id |-> NoId, tool_use_id |-> NoId]
ThinkingBlock == [type |-> "thinking", id |-> NoId, tool_use_id |-> NoId]
ToolUseBlock(c) == [type |-> "tool_use", id |-> c, tool_use_id |-> NoId]
ToolResultBlock(c) == [type |-> "tool_result", id |-> NoId, tool_use_id |-> c]

\* content: Some(Value::Array(blocks)) when arr, any other value otherwise
ArrayContent(blocks) == [arr |-> TRUE, blocks |-> blocks]
NonArrayContent == [arr |-> FALSE, blocks |-> <<>>]

Message(uuid, type, content) ==
    [uuid |-> uuid, message_type |-> type, content |-> content]

----------------------------------------------------------------------------
(* commands/multi_provider.rs: merge_tool_execution_messages *)

has_matching_tool_use(msg, tool_use_id) ==
    /\ msg.message_type = "assistant"
    /\ msg.content.arr
    /\ \E i \in 1..Len(msg.content.blocks) :
          /\ msg.content.blocks[i].type = "tool_use"
          /\ msg.content.blocks[i].id = tool_use_id

append_content_block_replacing(msg, block) ==
    [msg EXCEPT !.content = ArrayContent(<<block>>)]

append_content_block(msg, block) ==
    IF msg.content.arr
    THEN [msg EXCEPT !.content.blocks = Append(@, block)]
    ELSE [msg EXCEPT !.content = ArrayContent(<<block>>)]

\* `for prev in merged.iter_mut().rev()`: the index of the first match when
\* scanning from the end, 0 when there is none.
FarthestMatch(out, tool_use_id) ==
    LET S == {k \in 1..Len(out) : has_matching_tool_use(out[k], tool_use_id)}
    IN IF S = {} THEN 0 ELSE SetMin(S)

NearestMatch(out, tool_use_id) ==
    LET S == {k \in 1..Len(out) : has_matching_tool_use(out[k], tool_use_id)}
    IN IF S = {} THEN 0 ELSE SetMax(S)

\* The inner loop over the blocks of one user message.  st is
\* [out, remaining, saw]: the accepted list, remaining_blocks, saw_tool_result.
RECURSIVE MergeBlocks(_, _)
MergeBlocks(blocks, st) ==
    IF blocks = <<>> THEN st
    ELSE LET block == Head(blocks)
             k == NearestMatch(st.out, block.tool_use_id)
         IN IF block.type # "tool_result"
            THEN MergeBlocks(Tail(blocks),
                     [st EXCEPT !.remaining = Append(@, block)])
            ELSE IF block.tool_use_id = NoId
            THEN MergeBlocks(Tail(blocks),
                     [st EXCEPT !.remaining = Append(@, block), !.saw = TRUE])
            ELSE IF k # 0
            THEN MergeBlocks(Tail(blocks),
                     [st EXCEPT !.out[k] = append_content_block(@, block),
                                !.saw = TRUE])
            ELSE MergeBlocks(Tail(blocks),
                     [st EXCEPT !.remaining = Append(@, block), !.saw = TRUE])

\* What is pushed for a user message that held tool results.
DropWhenAnyMerged(out, msg, remaining) ==
    IF Len(remaining) = Len(msg.content.blocks)
    THEN Append(out, [msg EXCEPT !.content = ArrayContent(remaining)])
    ELSE out

EmitRemaining(out, msg, remaining) ==
    IF remaining # <<>>
    THEN Append(out, [msg EXCEPT !.content = ArrayContent(remaining)])
    ELSE out

\* The body of `for msg in messages`.
MergeMessage(out, msg) ==
    IF msg.message_type # "user" THEN Append(out, msg)
    ELSE IF ~msg.content.arr THEN Append(out, msg)
    ELSE LET st == MergeBlocks(msg.content.blocks,
                       [out |-> out, remaining |-> <<>>, saw |-> FALSE])
         IN IF ~st.saw THEN Append(out, msg)
            ELSE EmitRemaining(st.out, msg, st.remaining)

RECURSIVE MergeFrom(_, _)
MergeFrom(out, msgs) ==
    IF msgs = <<>> THEN out
    ELSE MergeFrom(MergeMessage(out, Head(msgs)), Tail(msgs))

merge_tool_execution_messages(msgs) == MergeFrom(<<>>, msgs)

----------------------------------------------------------------------------
(* providers/codex.rs: convert_codex_item and the in-parser merge *)

\* The rollout lines the parser distinguishes.  call_id "" is what a line
\* without a call_id yields (unwrap_or("")).
CodexCallIds == CallIds \cup {""}
CodexLines ==
    [kind : {"function_call", "function_call_output"}, call_id : CodexCallIds,
     role : {"none"}]
    \cup [kind : {"message"}, call_id : {""}, role : {"user", "assistant"}]
    \cup [kind : {"reasoning", "task_started"}, call_id : {""}, role : {"none"}]

\* convert_codex_item: the message a response_item line yields; the uuid is
\* the counter value ("codex-{counter}").
convert_codex_item(line, counter) ==
    CASE line.kind = "message" ->
           Message(counter, IF line.role = "user" THEN "user" ELSE "assistant",
                   ArrayContent(<<TextBlock>>))
      [] line.kind = "function_call" ->
           Message(counter, "assistant", ArrayContent(<<ToolUseBlock(line.call_id)>>))
      [] line.kind = "function_call_output" ->
           Message(counter, "user", ArrayContent(<<ToolResultBlock(line.call_id)>>))
      [] OTHER ->
           Message(counter, "assistant", ArrayContent(<<ThinkingBlock>>))

\* convert_codex_event for a task_started event: a progress message without
\* content.
convert_codex_event(line, counter) == Message(counter, "progress", NonArrayContent)

codex_has_matching_tool_use(msg, tool_use_id) ==
    /\ msg.content.arr
    /\ \E i \in 1..Len(msg.content.blocks) :
          /\ msg.content.blocks[i].type = "tool_use"
          /\ msg.content.blocks[i].id = tool_use_id

codex_append_content_block(msg, block) ==
    IF msg.content.arr
    THEN [msg EXCEPT !.content.blocks = Append(@, block)]
    ELSE [msg EXCEPT !.content = ArrayContent(<<block>>)]

\* extract_tool_result_block: the index-1 block when it is a tool_result
\* carrying a tool_use_id.
HasToolResultBlock(msg) ==
    /\ msg.content.arr
    /\ msg.content.blocks # <<>>
    /\ msg.content.blocks[1].type = "tool_result"
    /\ msg.content.blocks[1].tool_use_id # NoId

CodexMatch(msgs, msg) ==
    IF msg.message_type = "user" /\ HasToolResultBlock(msg)
    THEN LET S == {k \in 1..Len(msgs) :
                     /\ msgs[k].message_type = "assistant"
                     /\ codex_has_matching_tool_use(msgs[k],
                            msg.content.blocks[1].tool_use_id)}
         IN IF S = {} THEN 0 ELSE SetMax(S)
    ELSE 0

CodexPushDropUnmatched(msgs, msg) ==
    LET k == CodexMatch(msgs, msg)
    IN IF k # 0
       THEN [msgs EXCEPT ![k] = codex_append_content_block(@, msg.content.blocks[1])]
       ELSE IF msg.message_type = "user" /\ HasToolResultBlock(msg)
       THEN msgs
       ELSE Append(msgs, msg)

\* try_merge_tool_result_into_previous followed by the push of load_messages.
CodexPush(msgs, msg) ==
    LET k == CodexMatch(msgs, msg)
    IN IF k # 0
       THEN [msgs EXCEPT ![k] = codex_append_content_block(@, msg.content.blocks[1])]
       ELSE Append(msgs, msg)

\* One line of load_messages: a response_item is converted and merged or
\* pushed, an event message is converted and pushed.
CodexStep(msgs, line, counter) ==
    IF line.kind = "task_started"
    THEN Append(msgs, convert_codex_event(line, counter))
    ELSE CodexPush(msgs, convert_codex_item(line, counter))

RECURSIVE CodexLoadFrom(_, _, _)
CodexLoadFrom(msgs, counter, lines) ==
    IF lines = <<>> THEN msgs
    ELSE CodexLoadFrom(CodexStep(msgs, Head(lines), counter + 1),
                       counter + 1, Tail(lines))

codex_load_messages(lines) == CodexLoadFrom(<<>>, 0, lines)

----------------------------------------------------------------------------
(* commands/stats.rs: calculate_session_active_minutes.  Timestamps are   *)
(* seconds from 10:00:00 of the day of the first record.                  *)

SESSION_BREAK_THRESHOLD_MINUTES == 120

\* 10:00:00, 10:00:59, 10:01:00, 10:20:00, 12:00:00, 12:00:30, 12:01:00,
\* 14:00:00 and 14:30:00.
Instants == {0, 59, 60, 1200, 7200, 7230, 7260, 14400, 16200}

\* chrono's Duration::num_minutes of (later - earlier): whole minutes,
\* the fraction dropped.
num_minutes(later, earlier) == (later - earlier) \div 60

Max1(n) == IF n < 1 THEN 1 ELSE n

RECURSIVE Insert(_, _)
Insert(t, s) ==
    IF s = <<>> THEN <<t>>
    ELSE IF t <= Head(s) THEN <<t>> \o s
    ELSE <<Head(s)>> \o Insert(t, Tail(s))

\* timestamps.sort()
RECURSIVE Sort(_)
Sort(s) == IF s = <<>> THEN <<>> ELSE Insert(Head(s), Sort(Tail(s)))

BreaksAtThreshold(gap_minutes) == gap_minutes >= SESSION_BREAK_THRESHOLD_MINUTES

\* if gap_minutes > SESSION_BREAK_THRESHOLD_MINUTES
Breaks(gap_minutes) == gap_minutes > SESSION_BREAK_THRESHOLD_MINUTES

\* The loop over i in 0..len-1: st carries current_period_start and
\* session_total_minutes.
RECURSIVE ActiveLoop(_, _, _)
ActiveLoop(s, i, st) ==
    IF i >= Len(s) THEN st
    ELSE IF Breaks(num_minutes(s[i + 1], s[i]))
    THEN ActiveLoop(s, i + 1,
             [start |-> s[i + 1],
              total |-> st.total + Max1(num_minutes(s[i], st.start))])
    ELSE ActiveLoop(s, i + 1, st)

calculate_session_active_minutes(ts) ==
    IF ts = <<>> THEN 0
    ELSE IF Len(ts) = 1 THEN 1
    ELSE LET s == Sort(ts)
             st == ActiveLoop(s, 1, [start |-> s[1], total |-> 0])
         IN st.total + Max1(num_minutes(s[Len(s)], st.start))

----------------------------------------------------------------------------
(* commands/stats.rs: a line of a Claude session file and its token usage *)

\* Option::None of a counter or of totalTokens.
None == -1

TokenUsage(input, output, cache_creation, cache_read) ==
    [input_tokens |-> input, output_tokens |-> output,
     cache_creation_input_tokens |-> cache_creation,
     cache_read_input_tokens |-> cache_read]

\* TokenUsage with every counter None.
EmptyUsage == TokenUsage(None, None, None, None)

\* An optional usage object: absent, or present with the counters it holds.
Absent == [present |-> FALSE, usage |-> EmptyUsage]
Some(usage) == [present |-> TRUE, usage |-> usage]

\* The timestamp of a line: the key is absent, the string is not RFC 3339,
\* or it parses to an instant (seconds, >= 0).
NoTimestamp == -2
BadTimestamp == -1

\* A line of a session file, with the fields the statistics read.
\* message_content_usage is the usage object inside message.content,
\* content_usage the one inside the top-level content.
LogEntry(type, sidechain, session_id, ts, has_message, m_usage, mc_usage, c_usage, tur_usage, total) ==
    [message_type |-> type, is_sidechain |-> sidechain,
     has_session_id |-> session_id, timestamp |-> ts,
     has_message |-> has_message, usage |-> m_usage,
     message_content_usage |-> mc_usage, content_usage |-> c_usage,
     tool_use_result_usage |-> tur_usage, totalTokens |-> total]

PlainEntry(type, sidechain, ts, m_usage) ==
    LogEntry(type, sidechain, TRUE, ts, TRUE, m_usage, Absent, Absent, Absent, None)

\* Utc::now(), the instant a line without a timestamp is given: no line of a
\* file is later.
Now == 16200

\* TryFrom<RawLogEntry> for ClaudeMessage: the line is refused (ok FALSE) or
\* becomes a message whose usage is message.usage and whose content is
\* message.content when there is a message and the top-level content otherwise.
try_from(log_entry) ==
    [ok |-> ~(log_entry.message_type = "summary"
              \/ (~log_entry.has_session_id /\ log_entry.timestamp = NoTimestamp)),
     message_type |-> log_entry.message_type,
     is_sidechain |-> log_entry.is_sidechain,
     timestamp |-> IF log_entry.timestamp = NoTimestamp THEN Now
                   ELSE log_entry.timestamp,
     usage |-> IF log_entry.has_message THEN log_entry.usage ELSE Absent,
     content_usage |-> IF log_entry.has_message
                       THEN log_entry.message_content_usage
                       ELSE log_entry.content_usage,
     tool_use_result_usage |-> log_entry.tool_use_result_usage,
     totalTokens |-> log_entry.totalTokens]

Overlay(new, old) == IF new # None THEN new ELSE old

apply_usage_fields_from_value(usage_obj, usage) ==
    TokenUsage(Overlay(usage_obj.input_tokens, usage.input_tokens),
               Overlay(usage_obj.output_tokens, usage.output_tokens),
               Overlay(usage_obj.cache_creation_input_tokens,
                       usage.cache_creation_input_tokens),
               Overlay(usage_obj.cache_read_input_tokens,
                       usage.cache_read_input_tokens))

ApplyOptional(source, usage) ==
    IF source.present THEN apply_usage_fields_from_value(source.usage, usage)
    ELSE usage

\* totalTokens goes to output for an assistant line and to input otherwise,
\* when neither input nor output is set.
TotalTokensFallback(message_type, total, usage) ==
    IF total # None /\ usage.input_tokens = None /\ usage.output_tokens = None
    THEN IF message_type = "assistant"
         THEN [usage EXCEPT !.output_tokens = total]
         ELSE [usage EXCEPT !.input_tokens = total]
    ELSE usage

token_usage_has_token_fields(usage) ==
    \/ usage.input_tokens # None
    \/ usage.output_tokens # None
    \/ usage.cache_creation_input_tokens # None
    \/ usage.cache_read_input_tokens # None

extract_token_usage(message) ==
    IF message.usage.present THEN message.usage.usage
    ELSE TotalTokensFallback(message.message_type, message.totalTokens,
             ApplyOptional(message.tool_use_result_usage,
                 ApplyOptional(message.content_usage, EmptyUsage)))

extract_token_usage_from_global_entry(e) ==
    IF e.has_message /\ e.usage.present THEN e.usage.usage
    ELSE IF /\ e.has_message
            /\ e.message_content_usage.present
            /\ token_usage_has_token_fields(e.message_content_usage.usage)
    THEN e.message_content_usage.usage
    ELSE TotalTokensFallback(e.message_type, e.totalTokens,
             ApplyOptional(e.tool_use_result_usage, EmptyUsage))

----------------------------------------------------------------------------
(* commands/stats.rs: the inclusion policy and the three passes over a file *)

Modes == {"billing_total", "conversation_only"}

include_sidechain_swapped(mode) == mode = "conversation_only"

\* StatsMode::include_sidechain
include_sidechain(mode) == mode = "billing_total"

is_core_message_type(message_type) ==
    message_type \in {"user", "assistant", "system"}

is_conversation_message_type(message_type) ==
    message_type \in {"user", "assistant"}

is_non_message_noise_type(message_type) ==
    message_type \in {"progress", "queue-operation", "file-history-snapshot"}

should_include_stats_entry(message_type, is_sidechain, has_usage, mode) ==
    IF message_type = "summary" THEN FALSE
    ELSE IF ~include_sidechain(mode) /\ is_sidechain THEN FALSE
    ELSE IF mode = "conversation_only"
    THEN is_conversation_message_type(message_type)
    ELSE IF is_core_message_type(message_type) THEN TRUE
    ELSE IF is_non_message_noise_type(message_type) THEN has_usage
    ELSE has_usage

unwrap_or_0(counter) == IF counter = None THEN 0 ELSE counter

\* token_usage_totals, as a record of the five numbers.
token_usage_totals(usage) ==
    LET input == unwrap_or_0(usage.input_tokens)
        output == unwrap_or_0(usage.output_tokens)
        cache_creation == unwrap_or_0(usage.cache_creation_input_tokens)
        cache_read == unwrap_or_0(usage.cache_read_input_tokens)
    IN [input |-> input, output |-> output, cache_creation |-> cache_creation,
        cache_read |-> cache_read,
        total |-> input + output + cache_creation + cache_read]

\* parse_timestamp_utc: None unless the string parses.
parse_timestamp_utc(timestamp) == IF timestamp >= 0 THEN timestamp ELSE None

is_within_date_limits(timestamp, s_limit, e_limit) ==
    IF s_limit = None /\ e_limit = None THEN TRUE
    ELSE IF timestamp = None THEN FALSE
    ELSE (s_limit # None => timestamp >= s_limit)
         /\ (e_limit # None => timestamp <= e_limit)

\* What one iteration of a pass decides about its line.
Skipped == [included |-> FALSE, has_usage |-> FALSE, usage |-> EmptyUsage,
            timestamp |-> None]

Decided(message_type, is_sidechain, usage, timestamp, mode) ==
    [included |-> should_include_stats_entry(message_type, is_sidechain,
                      token_usage_has_token_fields(usage), mode),
     has_usage |-> token_usage_has_token_fields(usage),
     usage |-> usage,
     timestamp |-> parse_timestamp_utc(timestamp)]

\* A message of a provider's list, or a converted line, in a pass that reads
\* messages.
MessageLine(message, mode) ==
    Decided(message.message_type, message.is_sidechain,
            extract_token_usage(message), message.timestamp, mode)

\* The loop body of extract_session_token_stats_sync.
SessionLine(log_entry, mode, s_limit, e_limit) ==
    LET message == try_from(log_entry)
    IN IF ~message.ok THEN Skipped
       ELSE IF ~is_within_date_limits(parse_timestamp_utc(message.timestamp),
                                      s_limit, e_limit)
       THEN Skipped
       ELSE MessageLine(message, mode)

\* The loop body of process_session_file_for_project_stats.
ProjectLine(log_entry, mode) ==
    LET message == try_from(log_entry)
    IN IF ~message.ok THEN Skipped ELSE MessageLine(message, mode)

\* The loop body of process_session_file_for_global_stats.
GlobalLine(e, mode) ==
    Decided(e.message_type, e.is_sidechain,
            extract_token_usage_from_global_entry(e), e.timestamp, mode)

RECURSIVE SumIncluded(_, _)
SumIncluded(lines, field) ==
    IF lines = <<>> THEN 0
    ELSE (IF Head(lines).included
          THEN token_usage_totals(Head(lines).usage)[field] ELSE 0)
         + SumIncluded(Tail(lines), field)

RECURSIVE IncludedTimestamps(_)
IncludedTimestamps(lines) ==
    IF lines = <<>> THEN <<>>
    ELSE (IF Head(lines).included /\ Head(lines).timestamp # None
          THEN <<Head(lines).timestamp>> ELSE <<>>)
         \o IncludedTimestamps(Tail(lines))

\* The sums a pass accumulates over the lines it decided on.
Accumulate(lines) ==
    [lines |-> lines,
     total_messages |-> Len(SelectSeq(lines, LAMBDA l : l.included)),
     input |-> SumIncluded(lines, "input"),
     output |-> SumIncluded(lines, "output"),
     cache_creation |-> SumIncluded(lines, "cache_creation"),
     cache_read |-> SumIncluded(lines, "cache_read"),
     total_tokens |-> SumIncluded(lines, "total"),
     timestamps |-> IncludedTimestamps(lines),
     duration |-> calculate_session_active_minutes(IncludedTimestamps(lines))]

extract_session_token_stats_sync(lines, mode, s_limit, e_limit) ==
    Accumulate([i \in 1..Len(lines) |-> SessionLine(lines[i], mode, s_limit, e_limit)])

process_session_file_for_project_stats(lines, mode) ==
    Accumulate([i \in 1..Len(lines) |-> ProjectLine(lines[i], mode)])

process_session_file_for_global_stats(lines, mode) ==
    Accumulate([i \in 1..Len(lines) |-> GlobalLine(lines[i], mode)])

\* The loop body of build_session_token_stats_from_messages.
BuildLine(message, mode, s_limit, e_limit) ==
    IF ~is_within_date_limits(parse_timestamp_utc(message.timestamp),
                              s_limit, e_limit)
    THEN Skipped
    ELSE MessageLine(message, mode)

build_session_token_stats_from_messages(msgs, mode, s_limit, e_limit) ==
    Accumulate([i \in 1..Len(msgs) |-> BuildLine(msgs[i], mode, s_limit, e_limit)])

----------------------------------------------------------------------------
(* commands/stats.rs: session-level statistics, project summaries and the  *)
(* global summary over the sessions of the projects                        *)

\* One project per provider.
Projects == {"claude", "codex", "opencode"}

\* A message of a Codex or OpenCode session as load_messages yields it.
ProviderMessage(type, ts, usage) ==
    [ok |-> TRUE, message_type |-> type, is_sidechain |-> FALSE,
     timestamp |-> ts, usage |-> usage, content_usage |-> Absent,
     tool_use_result_usage |-> Absent, totalTokens |-> None]

NoRange == [s_limit |-> None, e_limit |-> None]

Range(seq) == {seq[i] : i \in 1..Len(seq)}

\* The last timestamp a session's statistics carry (last_message_time, or
\* the last of the sorted timestamps), None when there is none.
LastTimestamp(stats) ==
    IF stats.timestamps = <<>> THEN None ELSE SetMax(Range(stats.timestamps))

\* The date filter on a session's statistics: without a limit every
\* session stays, with one the last timestamp must parse and lie inside.
Retained(last_ts, range) ==
    IF range.s_limit = None /\ range.e_limit = None THEN TRUE
    ELSE /\ last_ts # None
         /\ (range.s_limit # None => last_ts >= range.s_limit)
         /\ (range.e_limit # None => last_ts <= range.e_limit)

SessionsOf(sessions, project) ==
    SelectSeq(sessions, LAMBDA session : session.project = project)

\* get_project_token_stats and get_provider_project_token_stats: the
\* statistics of each session with an included message, filtered by date.
get_project_token_stats(sessions, project, range, mode) ==
    LET mine == SessionsOf(sessions, project)
        all_stats ==
            [i \in 1..Len(mine) |->
                IF project = "claude"
                THEN extract_session_token_stats_sync(mine[i].lines, mode, None, None)
                ELSE build_session_token_stats_from_messages(mine[i].lines, mode,
                                                             None, None)]
    IN SelectSeq(all_stats,
                 LAMBDA stats : /\ stats.total_messages > 0
                                /\ Retained(LastTimestamp(stats), range))

\* The parsed timestamps of all messages of a session.
RECURSIVE ParsedTimestamps(_)
ParsedTimestamps(msgs) ==
    IF msgs = <<>> THEN <<>>
    ELSE (IF parse_timestamp_utc(Head(msgs).timestamp) # None
          THEN <<Head(msgs).timestamp>> ELSE <<>>)
         \o ParsedTimestamps(Tail(msgs))

\* calculate_session_active_minutes(&mut parsed_timestamps)
DurationOfSession(msgs, mode) ==
    calculate_session_active_minutes(ParsedTimestamps(msgs))

\* One session in get_provider_project_stats_summary: what it adds to the
\* summary, and whether it is counted at all.
ProviderSession(msgs, range, mode) ==
    LET parsed == ParsedTimestamps(msgs)
        sums == Accumulate([i \in 1..Len(msgs) |-> MessageLine(msgs[i], mode)])
    IN [counted |-> /\ msgs # <<>>
                    /\ parsed # <<>>
                    /\ (range.s_limit # None => SetMax(Range(parsed)) >= range.s_limit)
                    /\ (range.e_limit # None => SetMax(Range(parsed)) <= range.e_limit)
                    /\ sums.total_messages > 0,
        stats |-> [sums EXCEPT !.duration = DurationOfSession(msgs, mode)]]

\* One session file in the Claude arm of get_project_stats_summary.
ClaudeSession(lines, range, mode) ==
    LET stats == process_session_file_for_project_stats(lines, mode)
    IN [counted |-> /\ stats.total_messages > 0
                    /\ Retained(LastTimestamp(stats), range),
        stats |-> stats]

SumOver(file_stats, field) ==
    SeqSum([i \in 1..Len(file_stats) |-> file_stats[i][field]])

\* The aggregation of the counted sessions into a summary.
Summarise(file_stats) ==
    [total_sessions |-> Len(file_stats),
     total_messages |-> SumOver(file_stats, "total_messages"),
     input |-> SumOver(file_stats, "input"),
     output |-> SumOver(file_stats, "output"),
     cache_creation |-> SumOver(file_stats, "cache_creation"),
     cache_read |-> SumOver(file_stats, "cache_read"),
     total_tokens |-> SumOver(file_stats, "input") + SumOver(file_stats, "output")
                      + SumOver(file_stats, "cache_creation")
                      + SumOver(file_stats, "cache_read"),
     total_session_duration |-> SumOver(file_stats, "duration")]

get_project_stats_summary(sessions, project, range, mode) ==
    LET mine == SessionsOf(sessions, project)
        each == [i \in 1..Len(mine) |->
                    IF project = "claude"
                    THEN ClaudeSession(mine[i].lines, range, mode)
                    ELSE ProviderSession(mine[i].lines, range, mode)]
        counted == SelectSeq(each, LAMBDA session : session.counted)
    IN Summarise([i \in 1..Len(counted) |-> counted[i].stats])

\* get_global_stats_summary: the files of the active providers, each through
\* process_session_file_for_global_stats or, for Codex and OpenCode, through
\* build_global_session_file_stats_from_messages.
get_global_stats_summary(sessions, active_providers, mode) ==
    LET mine == SelectSeq(sessions,
                    LAMBDA session : /\ session.project \in active_providers
                                     /\ (session.project = "claude"
                                         \/ session.lines # <<>>))
        file_stats ==
            [i \in 1..Len(mine) |->
                IF mine[i].project = "claude"
                THEN process_session_file_for_global_stats(mine[i].lines, mode)
                ELSE Accumulate([j \in 1..Len(mine[i].lines) |->
                                    MessageLine(mine[i].lines[j], mode)])]
    IN [total_sessions |-> Len(file_stats),
        total_messages |-> SumOver(file_stats, "total_messages"),
        input |-> SumOver(file_stats, "input"),
        output |-> SumOver(file_stats, "output"),
        cache_creation |-> SumOver(file_stats, "cache_creation"),
        cache_read |-> SumOver(file_stats, "cache_read"),
        total_tokens |-> SumOver(file_stats, "total_tokens"),
        total_session_duration |-> SumOver(file_stats, "duration")]

----------------------------------------------------------------------------
(* Each specification moves its own variables; the others stay as they    *)
(* start.                                                                 *)

\* The variables of the other specifications stay at their initial values.
DurationIdle == timestamps = <<>> /\ active_minutes = 0
MergeIdle ==
    /\ provider = "claude"
    /\ rollout = <<>>
    /\ messages = <<>>
    /\ merged = <<>>
MergeFrame == UNCHANGED <<durationVars, usageVars, sessionVars, statsVars, loadVars, tokenVars, partVars, toolVars, catalogVars, searchVars, renameVars, metaVars, scanVars>>

UsageIdle ==
    /\ entry = PlainEntry("user", FALSE, 0, Absent)
    /\ message_usage = EmptyUsage
    /\ global_usage = EmptyUsage

SessionIdle ==
    /\ file = <<>>
    /\ session_stats = [mode \in Modes |-> Accumulate(<<>>)]
    /\ project_stats = [mode \in Modes |-> Accumulate(<<>>)]
    /\ global_stats = [mode \in Modes |-> Accumulate(<<>>)]
    /\ message_stats = [mode \in Modes |-> Accumulate(<<>>)]

\* Nothing is stored and the statistics were loaded for the empty store.
StatsIdle ==
    /\ store = <<>>
    /\ query = [loaded |-> FALSE, mode |-> "billing_total", range |-> NoRange,
                 active |-> Projects]
    /\ session_view = [project \in Projects |-> <<>>]
    /\ project_view = [project \in Projects |-> Summarise(<<>>)]
    /\ global_view = Summarise(<<>>)

\* No session file was opened.
LoadIdle ==
    /\ jsonl = <<>>
    /\ clock = 0
    /\ history = <<>>
    /\ response = [command |-> "none"]

\* No rollout was opened.
TokenIdle ==
    /\ codex_log = <<>>
    /\ codex_messages = <<>>
    /\ prev_input_tokens = 0
    /\ prev_output_tokens = 0

\* No OpenCode message was read.
PartsIdle ==
    /\ part_values = <<>>
    /\ message_tokens = Absent
    /\ opencode_message = [loaded |-> FALSE]

\* No message was tracked for tool statistics.
ToolsIdle ==
    /\ tracked = <<>>
    /\ tool_usage = [name \in {"Read", "Bash"} |-> <<0, 0>>]
    /\ global_tool_usage = [name \in {"Read", "Bash"} |-> <<0, 0>>]

\* No Codex rollout was written.
CatalogIdle ==
    /\ rollouts = <<>>
    /\ catalog = [scanned |-> FALSE]
    /\ listing = [loaded |-> FALSE]

\* No session file exists for search and no search was run.
SearchIdle ==
    /\ corpus = [p \in {"claude", "codex", "opencode"} |-> <<>>]
    /\ search_response = [command |-> "none"]

\* No session file is being renamed.
RenameIdle ==
    /\ platform = "unix"
    /\ session_file = [exists |-> FALSE, lines |-> <<>>]
    /\ temp_file = [exists |-> FALSE, lines |-> <<>>]
    /\ written = <<>>
    /\ rename_call = [pc |-> "idle"]
    /\ ops = <<>>

MetadataIdle ==
    /\ cache = <<>>
    /\ user_data = <<>>
    /\ user_data_tmp = <<>>
    /\ updates = <<>>

ScanIdle ==
    /\ scan_provider = "codex"
    /\ scan_store = <<>>
    /\ scan_listed = [done |-> FALSE]
    /\ scan_result = [done |-> FALSE]

DurationFrame == UNCHANGED <<mergeVars, usageVars, sessionVars, statsVars, loadVars, tokenVars, partVars, toolVars, catalogVars, searchVars, renameVars, metaVars, scanVars>>

UsageFrame == UNCHANGED <<mergeVars, durationVars, sessionVars, statsVars, loadVars, tokenVars, partVars, toolVars, catalogVars, searchVars, renameVars, metaVars, scanVars>>

----------------------------------------------------------------------------
(* SpecMerge: load_provider_messages over a growing session *)

BlockKinds ==
    {TextBlock} \cup {ToolUseBlock(c) : c \in CallIds}
    \cup {ToolResultBlock(c) : c \in CallIds \cup {NoId}}

TotalBlocks(msgs) == SeqSum([i \in 1..Len(msgs) |-> Len(msgs[i].content.blocks)])

InitMerge ==
    /\ provider \in {"claude", "codex"}
    /\ rollout = <<>>
    /\ messages = <<>>
    /\ merged = <<>>
    /\ DurationIdle
    /\ UsageIdle
    /\ SessionIdle
    /\ StatsIdle
    /\ LoadIdle
    /\ TokenIdle
    /\ PartsIdle
    /\ ToolsIdle
    /\ CatalogIdle
    /\ SearchIdle
    /\ RenameIdle
    /\ MetadataIdle
    /\ ScanIdle

\* The Claude session file has one more record: load_session_messages yields
\* one more message and load_provider_messages merges the list.
ClaudeRecord ==
    /\ provider = "claude"
    /\ Len(messages) < MaxMsgs
    /\ \E type \in {"user", "assistant"} :
       \E n \in 0..(MaxBlocks - TotalBlocks(messages)) :
       \E blocks \in [1..n -> BlockKinds] :
       \E arr \in BOOLEAN :
          /\ arr <=> n > 0
          /\ messages' = Append(messages,
                 Message(Len(messages) + 1, type,
                         IF arr THEN ArrayContent(blocks) ELSE NonArrayContent))
    /\ merged' = merge_tool_execution_messages(messages')
    /\ UNCHANGED <<provider, rollout>>
    /\ MergeFrame

\* The Codex rollout has one more line: load_messages parses the file and
\* load_provider_messages merges the list.
CodexLine ==
    /\ provider = "codex"
    /\ Len(rollout) < MaxLines
    /\ \E line \in CodexLines : rollout' = Append(rollout, line)
    /\ messages' = codex_load_messages(rollout')
    /\ merged' = merge_tool_execution_messages(messages')
    /\ UNCHANGED provider
    /\ MergeFrame

NextMerge == ClaudeRecord \/ CodexLine

SpecMerge == InitMerge /\ [][NextMerge]_vars

----------------------------------------------------------------------------
(* SpecDuration: calculate_session_active_minutes over a growing list *)

InitDuration ==
    /\ timestamps = <<>>
    /\ active_minutes = calculate_session_active_minutes(<<>>)
    /\ MergeIdle
    /\ UsageIdle
    /\ SessionIdle
    /\ StatsIdle
    /\ LoadIdle
    /\ TokenIdle
    /\ PartsIdle
    /\ ToolsIdle
    /\ CatalogIdle
    /\ SearchIdle
    /\ RenameIdle
    /\ MetadataIdle
    /\ ScanIdle

\* One more record contributes its timestamp and the duration is computed
\* over the list.
AddTimestamp ==
    /\ Len(timestamps) < MaxStamps
    /\ \E t \in Instants : timestamps' = Append(timestamps, t)
    /\ active_minutes' = calculate_session_active_minutes(timestamps')
    /\ DurationFrame

NextDuration == AddTimestamp

SpecDuration == InitDuration /\ [][NextDuration]_vars

----------------------------------------------------------------------------
(* SpecUsage: the two usage extractions applied to one line *)

\* The lines whose usage is extracted: every combination of the four sources.
UsageEntries ==
    {LogEntry(type, FALSE, TRUE, 0, has_message, m_usage, mc_usage, c_usage,
              tur_usage, total) :
        type \in {"user", "assistant"}, has_message \in BOOLEAN,
        m_usage \in {Absent, Some(TokenUsage(1, 2, None, None))},
        mc_usage \in {Absent, Some(EmptyUsage), Some(TokenUsage(5, None, None, None)),
                      Some(TokenUsage(None, None, 4, None))},
        c_usage \in {Absent, Some(TokenUsage(5, None, None, None))},
        tur_usage \in {Absent, Some(TokenUsage(7, None, None, None)),
                       Some(TokenUsage(None, 3, None, None)),
                       Some(TokenUsage(None, None, None, 6))},
        total \in {None, 9}}

\* A line without a message has no message fields, and a line with a message
\* has no top-level content.
OneContent(e) ==
    /\ ~e.has_message =>
          e.usage = Absent /\ e.message_content_usage = Absent
    /\ e.has_message => e.content_usage = Absent

InitUsage ==
    /\ entry = PlainEntry("user", FALSE, 0, Absent)
    /\ message_usage = extract_token_usage(try_from(entry))
    /\ global_usage = extract_token_usage_from_global_entry(entry)
    /\ MergeIdle
    /\ DurationIdle
    /\ SessionIdle
    /\ StatsIdle
    /\ LoadIdle
    /\ TokenIdle
    /\ PartsIdle
    /\ ToolsIdle
    /\ CatalogIdle
    /\ SearchIdle
    /\ RenameIdle
    /\ MetadataIdle
    /\ ScanIdle

\* The session- and project-scope passes and the global pass read one line.
ExtractUsage ==
    /\ \E e \in UsageEntries : OneContent(e) /\ entry' = e
    /\ message_usage' = extract_token_usage(try_from(entry'))
    /\ global_usage' = extract_token_usage_from_global_entry(entry')
    /\ UsageFrame

NextUsage == ExtractUsage

SpecUsage == InitUsage /\ [][NextUsage]_vars

----------------------------------------------------------------------------
(* What the merge claims speak of, stated on the input list `messages`     *)
(* and the output list `merged` without reference to the merge loop.       *)

Blocks(i) == messages[i].content.blocks

\* Message k is an assistant message containing a tool_use block with id c.
HoldsToolUse(k, c) ==
    /\ messages[k].message_type = "assistant"
    /\ \E j \in 1..Len(Blocks(k)) :
          Blocks(k)[j].type = "tool_use" /\ Blocks(k)[j].id = c

\* The nearest earlier holder of the tool_use that the tool_result block j of
\* message i answers (0: not a tool_result with an id, or no holder).  With
\* userOnly, only blocks of user messages have one.
Target(i, j, userOnly) ==
    LET c == Blocks(i)[j].tool_use_id
        S == {k \in 1..(i - 1) : HoldsToolUse(k, c)}
    IN IF /\ Blocks(i)[j].type = "tool_result"
          /\ c # NoId
          /\ S # {}
          /\ (userOnly => messages[i].message_type = "user")
       THEN SetMax(S) ELSE 0

\* The blocks of message i, from position j on, whose target is k, in order.
RECURSIVE PickBlocks(_, _, _, _)
PickBlocks(i, j, k, userOnly) ==
    IF j > Len(Blocks(i)) THEN <<>>
    ELSE (IF Target(i, j, userOnly) = k THEN <<Blocks(i)[j]>> ELSE <<>>)
         \o PickBlocks(i, j + 1, k, userOnly)

\* The blocks of the messages from i on whose target is k, in order.
RECURSIVE AttachedFrom(_, _, _)
AttachedFrom(i, k, userOnly) ==
    IF i > Len(messages) THEN <<>>
    ELSE PickBlocks(i, 1, k, userOnly) \o AttachedFrom(i + 1, k, userOnly)

Kept(i, userOnly) == PickBlocks(i, 1, 0, userOnly)

Moved(i, userOnly) ==
    \E j \in 1..Len(Blocks(i)) : Target(i, j, userOnly) # 0

OutIndexes(i) == {o \in 1..Len(merged) : merged[o].uuid = messages[i].uuid}

AttachesToNearest(userOnly) ==
    \A i \in 1..Len(messages) :
       /\ (messages[i].message_type = "assistant" /\ messages[i].content.arr) =>
             \E o \in OutIndexes(i) :
                merged[o].content.blocks =
                    Kept(i, userOnly) \o AttachedFrom(i + 1, i, userOnly)
       /\ Moved(i, userOnly) =>
             IF Kept(i, userOnly) = <<>> /\ messages[i].message_type = "user"
             THEN OutIndexes(i) = {}
             ELSE \A o \in OutIndexes(i) :
                     Len(merged[o].content.blocks) =
                         Len(Kept(i, userOnly))
                         + Len(AttachedFrom(i + 1, i, userOnly))

MergeExample ==
    messages = << Message(1, "assistant", ArrayContent(<<ToolUseBlock("call_1")>>)),
                  Message(2, "user", ArrayContent(<<ToolResultBlock("call_1")>>)) >>
    => /\ Len(merged) = 1
       /\ Len(merged[1].content.blocks) = 2
       /\ merged[1].content.blocks[2].type = "tool_result"

\* C1 (as stated): every tool_result block, whatever the type of the message
\* that carries it, is appended to the nearest earlier assistant message that
\* holds the tool_use with its id, and is removed from its own message.
C1_EveryToolResultAttaches == AttachesToNearest(FALSE) /\ MergeExample

\* C1 (amended): every tool_result block of a user-type message that carries a
\* tool_use_id is appended, in the order met, at the end of the nearest earlier
\* assistant message holding a tool_use with that id, and is removed from its
\* own message; a user message left with no blocks is not emitted; the
\* call_1 example yields one message of two blocks ending in the tool_result.
C1_UserToolResultsAttachToNearest == AttachesToNearest(TRUE) /\ MergeExample

\* Two assistant messages hold call_1 and the later one received the result.
C1_Witness ==
    /\ Len(messages) = 3
    /\ HoldsToolUse(1, "call_1") /\ HoldsToolUse(2, "call_1")
    /\ messages[3] = Message(3, "user", ArrayContent(<<ToolResultBlock("call_1")>>))
    /\ Len(merged) = 2
    /\ merged[1] = messages[1]
    /\ merged[2].content.blocks = Append(Blocks(2), ToolResultBlock("call_1"))

\* Occurrences of block b in the sequence s.
Count(s, b) == Cardinality({j \in 1..Len(s) : s[j] = b})

\* Block j of message i is a tool_result that no earlier assistant message
\* holds a tool_use for.
Unmatched(i, j) ==
    /\ Blocks(i)[j].type = "tool_result"
    /\ \A k \in 1..(i - 1) : ~HoldsToolUse(k, Blocks(i)[j].tool_use_id)

\* Line n of the rollout is a tool output that no earlier line called.
UnmatchedOutput(n) ==
    /\ rollout[n].kind = "function_call_output"
    /\ \A m \in 1..(n - 1) :
          ~(rollout[m].kind = "function_call"
            /\ rollout[m].call_id = rollout[n].call_id)

\* C2: a tool_result block with no earlier assistant message holding a
\* tool_use of its id is still in the output, inside its own message, after
\* the generic merge and after the Codex in-parser merge.
C2_UnmatchedToolResultKept ==
    /\ \A i \in 1..Len(messages) : \A j \in 1..Len(Blocks(i)) :
          Unmatched(i, j) =>
             \E o \in OutIndexes(i) :
                Count(merged[o].content.blocks, Blocks(i)[j])
                    >= Cardinality({h \in 1..Len(Blocks(i)) :
                           Unmatched(i, h) /\ Blocks(i)[h] = Blocks(i)[j]})
    /\ provider = "codex" =>
          \A n \in 1..Len(rollout) :
             UnmatchedOutput(n) =>
                \E o \in 1..Len(messages) :
                   messages[o] = Message(n, "user",
                       ArrayContent(<<ToolResultBlock(rollout[n].call_id)>>))

\* A rollout whose call_1 output merged while its call_2 output, never
\* called, stayed a message of its own, also after the generic merge.
C2_Witness ==
    /\ provider = "codex"
    /\ Len(rollout) = 3
    /\ UnmatchedOutput(2)
    /\ Len(messages) = 2
    /\ Len(messages[1].content.blocks) = 2
    /\ messages[2].content.blocks = <<ToolResultBlock("call_2")>>
    /\ merged = messages

----------------------------------------------------------------------------
(* The duration claim, stated by periods rather than by the loop. *)

\* The timestamps in ascending order: the i-th is the instant with fewer
\* than i timestamps before it and at least i timestamps up to it.
Ascending ==
    [i \in 1..Len(timestamps) |->
        CHOOSE t \in Instants :
           /\ Cardinality({j \in 1..Len(timestamps) : timestamps[j] < t}) < i
           /\ Cardinality({j \in 1..Len(timestamps) : timestamps[j] <= t}) >= i]

\* The gap between sorted neighbours i and i+1 cuts: in whole minutes it is
\* over 120 (wholeMinutes), or it is over 120 minutes by any amount.
Cuts(i, wholeMinutes) ==
    IF wholeMinutes
    THEN (Ascending[i + 1] - Ascending[i]) \div 60 > 120
    ELSE Ascending[i + 1] - Ascending[i] > 120 * 60

\* i is the first timestamp of a period, and the last timestamp of the
\* period that starts at i.
PeriodStart(i, wholeMinutes) == i = 1 \/ Cuts(i - 1, wholeMinutes)
PeriodEnd(i, wholeMinutes) ==
    SetMin({j \in i..Len(timestamps) :
              j = Len(timestamps) \/ Cuts(j, wholeMinutes)})

PeriodMinutes(i, wholeMinutes) ==
    LET d == (Ascending[PeriodEnd(i, wholeMinutes)] - Ascending[i]) \div 60
    IN IF d > 1 THEN d ELSE 1

SumOfPeriods(wholeMinutes) ==
    SeqSum([i \in 1..Len(timestamps) |->
              IF PeriodStart(i, wholeMinutes)
              THEN PeriodMinutes(i, wholeMinutes) ELSE 0])

DurationByPeriods(wholeMinutes) ==
    /\ Len(timestamps) = 0 => active_minutes = 0
    /\ Len(timestamps) = 1 => active_minutes = 1
    /\ Len(timestamps) >= 2 => active_minutes = SumOfPeriods(wholeMinutes)
    /\ timestamps = <<0, 1200>> => active_minutes = 20
    /\ timestamps = <<0, 1200, 14400, 16200>> => active_minutes = 50

\* C8 (as stated): the active duration is 0 for no timestamp, 1 for one, and
\* otherwise the sum over the periods, cut at every gap over 120 minutes by
\* any amount, of max(1, last minus first); [10:00, 10:20] gives 20 and
\* [10:00, 10:20, 14:00, 14:30] gives 50.
C8_CutsAtAnyGapOver120 == DurationByPeriods(FALSE)

\* C8 (amended): the same with gaps and period lengths in whole minutes, the
\* fraction dropped: a gap cuts when its whole minutes are over 120, that is
\* from 121 minutes on; a gap below 121 minutes never cuts.
C8_CutsAtWholeMinuteGapOver120 == DurationByPeriods(TRUE)

\* The four timestamps of the example, handed over unsorted, gave 50.
C8_Witness ==
    /\ timestamps = <<14400, 0, 16200, 1200>>
    /\ active_minutes = 50

----------------------------------------------------------------------------
(* The usage priority claim. *)

\* The usage object inside the content of the line.
ContentUsageOf(e) ==
    IF e.has_message THEN e.message_content_usage ELSE e.content_usage

\* A usage object counts as present when it holds at least one counter.
Holds(source) ==
    /\ source.present
    /\ \E f \in DOMAIN source.usage : source.usage[f] # None

\* The usage of the first source present, in the order message.usage, content
\* usage, tool_use_result.usage, totalTokens, and nothing of the later ones.
FirstPresentUsage(e) ==
    IF e.has_message /\ e.usage.present THEN e.usage.usage
    ELSE IF Holds(ContentUsageOf(e)) THEN ContentUsageOf(e).usage
    ELSE IF Holds(e.tool_use_result_usage) THEN e.tool_use_result_usage.usage
    ELSE IF e.totalTokens = None THEN EmptyUsage
    ELSE IF e.message_type = "assistant"
    THEN TokenUsage(None, e.totalTokens, None, None)
    ELSE TokenUsage(e.totalTokens, None, None, None)

\* C10: the usage of a Claude line is that of the first source present in
\* the order message.usage, content usage, tool_use_result.usage,
\* totalTokens; no counter of a later source is used or overrides it;
\* totalTokens goes to output for an assistant line, to input otherwise.
C10_UsageFromFirstSourcePresent ==
    /\ message_usage = FirstPresentUsage(entry)
    /\ global_usage = FirstPresentUsage(entry)

----------------------------------------------------------------------------
(* SpecSession: one session file read by every pass under both policies *)

MaxFileLines == 3    \* lines of the session file

\* The lines a session file is made of: plain user, assistant, sidechain and
\* system lines, progress lines without and with usage, a summary, a line
\* with neither sessionId nor timestamp, a line with usage both in its
\* content and in its tool result, and a line of another type whose usage
\* sits in the top-level content.
SessionEntries ==
    { PlainEntry("user", FALSE, 0, Absent),
      PlainEntry("assistant", FALSE, 1200, Some(TokenUsage(10, 5, None, None))),
      PlainEntry("assistant", TRUE, 1200, Some(TokenUsage(3, 4, 2, 1))),
      PlainEntry("system", FALSE, 0, Absent),
      LogEntry("progress", FALSE, TRUE, 1200, FALSE, Absent, Absent, Absent, Absent, None),
      LogEntry("progress", FALSE, TRUE, 1200, FALSE, Absent, Absent, Absent, Absent, 9),
      LogEntry("summary", FALSE, FALSE, NoTimestamp, FALSE, Absent, Absent, Absent, Absent, None),
      LogEntry("assistant", FALSE, FALSE, NoTimestamp, TRUE,
               Some(TokenUsage(10, 5, None, None)), Absent, Absent, Absent, None),
      LogEntry("user", FALSE, TRUE, 0, TRUE, Absent,
               Some(TokenUsage(5, None, None, None)), Absent,
               Some(TokenUsage(7, 3, None, None)), None),
      LogEntry("attachment", FALSE, TRUE, BadTimestamp, FALSE, Absent, Absent,
               Some(TokenUsage(5, None, None, None)), Absent, None) }

\* The messages a loader hands to the passes that read messages: the lines
\* that convert.
LoadedMessages(lines) ==
    LET converted == [i \in 1..Len(lines) |-> try_from(lines[i])]
    IN SelectSeq(converted, LAMBDA message : message.ok)

SessionFrame == UNCHANGED <<mergeVars, durationVars, usageVars, statsVars, loadVars, tokenVars, partVars, toolVars, catalogVars, searchVars, renameVars, metaVars, scanVars>>

InitSession ==
    /\ file = <<>>
    /\ session_stats =
          [mode \in Modes |-> extract_session_token_stats_sync(<<>>, mode, None, None)]
    /\ project_stats =
          [mode \in Modes |-> process_session_file_for_project_stats(<<>>, mode)]
    /\ global_stats =
          [mode \in Modes |-> process_session_file_for_global_stats(<<>>, mode)]
    /\ message_stats =
          [mode \in Modes |->
              build_session_token_stats_from_messages(<<>>, mode, None, None)]
    /\ MergeIdle
    /\ DurationIdle
    /\ UsageIdle
    /\ StatsIdle
    /\ LoadIdle
    /\ TokenIdle
    /\ PartsIdle
    /\ ToolsIdle
    /\ CatalogIdle
    /\ SearchIdle
    /\ RenameIdle
    /\ MetadataIdle
    /\ ScanIdle

\* A line is appended to the file and every pass reads the file again.
AppendLine ==
    /\ Len(file) < MaxFileLines
    /\ \E e \in SessionEntries : file' = Append(file, e)
    /\ session_stats' =
          [mode \in Modes |-> extract_session_token_stats_sync(file', mode, None, None)]
    /\ project_stats' =
          [mode \in Modes |-> process_session_file_for_project_stats(file', mode)]
    /\ global_stats' =
          [mode \in Modes |-> process_session_file_for_global_stats(file', mode)]
    /\ message_stats' =
          [mode \in Modes |->
              build_session_token_stats_from_messages(LoadedMessages(file'), mode,
                                                      None, None)]
    /\ SessionFrame

NextSession == AppendLine

SpecSession == InitSession /\ [][NextSession]_vars

----------------------------------------------------------------------------
(* The claims about the passes over one file. *)

\* What a pass derived for a line: has_usage, the usage and the decision.
Derived(line) ==
    [has_usage |-> line.has_usage, usage |-> line.usage, included |-> line.included]

SamePass(a, b) ==
    /\ \A i \in 1..Len(file) : Derived(a.lines[i]) = Derived(b.lines[i])
    /\ a.total_messages = b.total_messages

\* C6: for one file and one policy the session-, project- and global-scope
\* passes derive the same has_usage and usage for every line, decide the same
\* about including it and report the same message count.
C6_PassesIncludeTheSameRecords ==
    \A mode \in Modes :
       /\ SamePass(session_stats[mode], project_stats[mode])
       /\ SamePass(project_stats[mode], global_stats[mode])

\* Pass `stats` includes under billing_total whatever it includes under
\* conversation_only, and totals at least as many tokens.
BillingCoversConversation(stats) ==
    /\ stats["billing_total"].total_tokens >= stats["conversation_only"].total_tokens
    /\ \A i \in 1..Len(stats["conversation_only"].lines) :
          stats["conversation_only"].lines[i].included
             => stats["billing_total"].lines[i].included

\* C7: for any list of records the total tokens under BillingTotal are at
\* least the total under ConversationOnly, and every record included under
\* ConversationOnly is included under BillingTotal.
C7_BillingTotalAtLeastConversationOnly ==
    /\ BillingCoversConversation(message_stats)
    /\ BillingCoversConversation(session_stats)
    /\ BillingCoversConversation(project_stats)
    /\ BillingCoversConversation(global_stats)

\* A main-chain and a sidechain assistant line, both with usage: the
\* sidechain tokens count under BillingTotal only.
C7_Witness ==
    /\ Len(file) = 2
    /\ ~file[1].is_sidechain /\ file[2].is_sidechain
    /\ message_stats["conversation_only"].total_tokens = 15
    /\ message_stats["billing_total"].total_tokens = 25


----------------------------------------------------------------------------
(* SpecStats: sessions of three projects are written, and the statistics   *)
(* views are loaded for a policy, a date range and a set of providers      *)

MaxSessions == 2        \* sessions in the store
MaxSessionLines == 2    \* lines, or messages, of one session

\* The lines a Claude session file is built from.
ClaudeLines ==
    { PlainEntry("assistant", FALSE, 0, Some(TokenUsage(10, 5, None, None))),
      PlainEntry("assistant", TRUE, 1200, Some(TokenUsage(3, 4, 2, 1))),
      PlainEntry("user", FALSE, 14400, Absent),
      LogEntry("assistant", FALSE, FALSE, NoTimestamp, TRUE,
               Some(TokenUsage(10, 5, None, None)), Absent, Absent, Absent, None) }

\* The messages a Codex or OpenCode session loads to.
ProviderMessages ==
    { ProviderMessage("assistant", 0, Some(TokenUsage(10, 5, None, None))),
      ProviderMessage("assistant", BadTimestamp, Some(TokenUsage(10, 5, None, None))),
      ProviderMessage("user", 1200, Absent),
      ProviderMessage("progress", 14400, Absent) }

Ranges ==
    { NoRange, [s_limit |-> None, e_limit |-> 1200], [s_limit |-> 1200, e_limit |-> None] }

ActiveSets == { Projects, {"claude"}, {"codex", "opencode"} }

\* The views hold nothing that was loaded from the present store.
NotLoaded == [loaded |-> FALSE, mode |-> "billing_total", range |-> NoRange,
              active |-> Projects]

StatsFrame == UNCHANGED <<mergeVars, durationVars, usageVars, sessionVars, loadVars, tokenVars, partVars, toolVars, catalogVars, searchVars, renameVars, metaVars, scanVars>>

InitStats ==
    /\ StatsIdle
    /\ MergeIdle
    /\ DurationIdle
    /\ UsageIdle
    /\ SessionIdle
    /\ LoadIdle
    /\ TokenIdle
    /\ PartsIdle
    /\ ToolsIdle
    /\ CatalogIdle
    /\ SearchIdle
    /\ RenameIdle
    /\ MetadataIdle
    /\ ScanIdle

ClearViews ==
    /\ query' = NotLoaded
    /\ session_view' = [project \in Projects |-> <<>>]
    /\ project_view' = [project \in Projects |-> Summarise(<<>>)]
    /\ global_view' = Summarise(<<>>)

\* A provider's tool starts a session in its project.
NewSession ==
    /\ Len(store) < MaxSessions
    /\ \E project \in Projects :
          store' = Append(store, [project |-> project, lines |-> <<>>])
    /\ ClearViews
    /\ StatsFrame

\* A provider's tool writes one more line to a session.
WriteLine ==
    /\ \E i \in 1..Len(store) :
          /\ Len(store[i].lines) < MaxSessionLines
          /\ \E line \in (IF store[i].project = "claude" THEN ClaudeLines
                          ELSE ProviderMessages) :
                store' = [store EXCEPT ![i].lines = Append(@, line)]
    /\ ClearViews
    /\ StatsFrame

\* The statistics are loaded: session-level statistics and the summary of
\* each project, and the global summary, for one policy.
LoadStatistics ==
    /\ ~query.loaded
    /\ \E mode \in Modes, range \in Ranges, active \in ActiveSets :
          /\ query' = [loaded |-> TRUE, mode |-> mode, range |-> range,
                       active |-> active]
          /\ session_view' =
                [project \in Projects |->
                    get_project_token_stats(store, project, range, mode)]
          /\ project_view' =
                [project \in Projects |->
                    get_project_stats_summary(store, project, range, mode)]
          /\ global_view' = get_global_stats_summary(store, active, mode)
    /\ UNCHANGED store
    /\ StatsFrame

NextStats == NewSession \/ WriteLine \/ LoadStatistics

SpecStats == InitStats /\ [][NextStats]_vars

----------------------------------------------------------------------------
(* Claims about the totals and durations at project and global scope *)

TokenFields == {"input", "output", "cache_creation", "cache_read", "total_tokens"}

\* C4: for any project, policy and date range, each token total of the
\* project summary (input, output, cache creation, cache read, total) is the
\* sum of that total over the session-level statistics of the project loaded
\* under the same policy and date range.
C4_ProjectTotalIsSumOfSessions ==
    query.loaded =>
        \A project \in Projects, field \in TokenFields :
            project_view[project][field] = SumOver(session_view[project], field)

ProjectOrder == <<"claude", "codex", "opencode">>

\* C5: the total of the global summary is the sum of the totals of the
\* project summaries of all included projects under the same policy.
C5_GlobalTotalIsSumOfProjects ==
    (query.loaded /\ query.range = NoRange) =>
        global_view.total_tokens =
            SeqSum([i \in 1..Len(ProjectOrder) |->
                       IF ProjectOrder[i] \in query.active
                       THEN project_view[ProjectOrder[i]].total_tokens
                       ELSE 0])

\* The minutes of a session when only the timestamps of the records its pass
\* includes are used.
MinutesOfIncluded(pass_lines) ==
    calculate_session_active_minutes(IncludedTimestamps(pass_lines))

ProjectPassLines(session, mode) ==
    [j \in 1..Len(session.lines) |->
        IF session.project = "claude" THEN ProjectLine(session.lines[j], mode)
        ELSE MessageLine(session.lines[j], mode)]

GlobalPassLines(session, mode) ==
    [j \in 1..Len(session.lines) |->
        IF session.project = "claude" THEN GlobalLine(session.lines[j], mode)
        ELSE MessageLine(session.lines[j], mode)]

\* C9: at project and at global scope, and for every provider, the session
\* durations are computed from exactly the timestamps of the records that
\* the selected policy includes.
C9_DurationFromIncludedTimestamps ==
    (query.loaded /\ query.range = NoRange) =>
        /\ \A project \in Projects :
              project_view[project].total_session_duration =
                  SeqSum([i \in 1..Len(SessionsOf(store, project)) |->
                             MinutesOfIncluded(
                                 ProjectPassLines(SessionsOf(store, project)[i],
                                                  query.mode))])
        /\ global_view.total_session_duration =
              SeqSum([i \in 1..Len(store) |->
                         IF store[i].project \in query.active
                         THEN MinutesOfIncluded(GlobalPassLines(store[i], query.mode))
                         ELSE 0])


----------------------------------------------------------------------------
(* commands/session/load.rs: the messages, pages, counts and session entry *)
(* read from one Claude session file                                       *)

NoUuid == "none"
NoSummary == "none"

\* A line of a session file with the fields the loaders read: those of
\* LogEntry, the uuid and, for a summary line, the summary text.
Record(type, sidechain, session_id, ts, usage, uuid, summary) ==
    LogEntry(type, sidechain, session_id, ts, type # "summary", usage,
             Absent, Absent, Absent, None)
        @@ [uuid |-> uuid, summary |-> summary]

\* classify_line: the line is counted as a message.
classify_line(line, exclude_sidechain) ==
    /\ line.message_type # "summary"
    /\ ~(exclude_sidechain /\ line.is_sidechain)

NoMessage == [ok |-> FALSE]

\* Uuid::new_v4() in the call `fresh` of a loader, for the line line_num: a
\* value no other call and no other line gets, and no id of a file.
new_v4(fresh, line_num) ==
    << <<"g01", "g02", "g03", "g04", "g05">>,
       <<"g11", "g12", "g13", "g14", "g15">>,
       <<"g21", "g22", "g23", "g24", "g25">> >>[fresh + 1][line_num]

\* The fields both arms of parse_line_to_message fill from the line.
LineMessage(line_num, line, now, fresh, content) ==
    [ok |-> TRUE,
     uuid |-> IF line.uuid = NoUuid THEN new_v4(fresh, line_num) ELSE line.uuid,
     session_id |-> IF line.has_session_id THEN "session" ELSE "unknown-session",
     timestamp |-> IF line.timestamp = NoTimestamp THEN now ELSE line.timestamp,
     message_type |-> line.message_type,
     is_sidechain |-> line.is_sidechain,
     content |-> content,
     usage |-> line.usage]

\* A mutant of parse_line_to_message: the summary line is dropped whatever
\* include_summary says.
parse_line_drop_summary(line_num, line, include_summary, now, fresh) ==
    IF line.message_type = "summary" THEN NoMessage
    ELSE IF ~line.has_session_id /\ line.timestamp = NoTimestamp THEN NoMessage
    ELSE LineMessage(line_num, line, now, fresh, "content")

\* A mutant of parse_line_to_message: every message is stamped with the time
\* of the call.
parse_line_stamp_now(line_num, line, include_summary, now, fresh) ==
    IF line.message_type = "summary"
    THEN IF ~include_summary \/ line.summary = NoSummary THEN NoMessage
         ELSE [LineMessage(line_num, line, now, fresh, line.summary)
                  EXCEPT !.timestamp = now]
    ELSE IF ~line.has_session_id /\ line.timestamp = NoTimestamp THEN NoMessage
    ELSE [LineMessage(line_num, line, now, fresh, "content") EXCEPT !.timestamp = now]

parse_line_to_message(line_num, line, include_summary, now, fresh) ==
    IF line.message_type = "summary"
    THEN IF ~include_summary \/ line.summary = NoSummary THEN NoMessage
         ELSE [LineMessage(line_num, line, now, fresh, line.summary)
                  EXCEPT !.is_sidechain = FALSE, !.usage = Absent]
    ELSE IF ~line.has_session_id /\ line.timestamp = NoTimestamp THEN NoMessage
    ELSE LineMessage(line_num, line, now, fresh, "content")

\* The messages of the lines whose numbers are in `indices`, in that order.
ParseLines(lines, indices, include_summary, now, fresh) ==
    LET parsed == [k \in 1..Len(indices) |->
                      parse_line_to_message(indices[k], lines[indices[k]],
                                            include_summary, now, fresh)]
    IN SelectSeq(parsed, LAMBDA message : message.ok)

load_session_messages(lines, now, fresh) ==
    ParseLines(lines, [i \in 1..Len(lines) |-> i], TRUE, now, fresh)

Min(a, b) == IF a < b THEN a ELSE b

load_session_messages_paginated(lines, offset, limit, exclude_sidechain, now, fresh) ==
    LET valid_indices ==
            SelectSeq([i \in 1..Len(lines) |-> i],
                      LAMBDA i : classify_line(lines[i], exclude_sidechain))
        total_count == Len(valid_indices)
        remaining_messages == IF total_count > offset THEN total_count - offset ELSE 0
        messages_to_load == Min(limit, remaining_messages)
        start_idx == IF remaining_messages = 0 THEN 0
                     ELSE total_count - offset - messages_to_load
        end_idx == IF remaining_messages = 0 THEN 0 ELSE total_count - offset
        page == ParseLines(lines, SubSeq(valid_indices, start_idx + 1, end_idx),
                           FALSE, now, fresh)
    IN [command |-> "load_session_messages_paginated",
        exclude_sidechain |-> exclude_sidechain,
        messages |-> page,
        total_count |-> total_count,
        has_more |-> start_idx > 0,
        next_offset |-> offset + Len(page)]

get_session_message_count(lines, exclude_sidechain) ==
    [command |-> "get_session_message_count",
     exclude_sidechain |-> exclude_sidechain,
     count |-> Len(SelectSeq(lines, LAMBDA line : classify_line(line, exclude_sidechain)))]

\* load_session_from_file: None (found FALSE) or the session's entry.
load_session_from_file(lines, exclude_sidechain, now) ==
    LET kept == SelectSeq(lines,
                    LAMBDA line : /\ line.message_type # "summary"
                                  /\ (line.has_session_id \/ line.timestamp # NoTimestamp))
        titled == SelectSeq(lines, LAMBDA line : /\ line.message_type = "summary"
                                                 /\ line.summary # NoSummary)
        message_count ==
            IF exclude_sidechain
            THEN Len(SelectSeq(kept, LAMBDA line : ~line.is_sidechain))
            ELSE Len(kept)
        timestamp(line) == IF line.timestamp = NoTimestamp THEN now ELSE line.timestamp
    IN IF kept = <<>> \/ message_count = 0
       THEN [command |-> "load_session_from_file",
             exclude_sidechain |-> exclude_sidechain, found |-> FALSE]
       ELSE [command |-> "load_session_from_file",
             exclude_sidechain |-> exclude_sidechain, found |-> TRUE,
             message_count |-> message_count,
             first_message_time |-> timestamp(kept[1]),
             last_message_time |-> timestamp(kept[Len(kept)]),
             summary |-> IF titled # <<>> THEN titled[1].summary
                         ELSE IF \E i \in 1..Len(kept) : kept[i].message_type = "user"
                         THEN "user text"
                         ELSE NoSummary]


----------------------------------------------------------------------------
(* SpecLoad: records are written to one Claude session file, time passes,  *)
(* and the file is loaded in full, by page, counted, listed and summed     *)

MaxRecords == 3     \* lines of the session file

LoadRecords ==
    { Record("user", FALSE, TRUE, 0, Absent, "u1", NoSummary),
      Record("assistant", TRUE, TRUE, 1200, Some(TokenUsage(10, 5, None, None)),
             "u2", NoSummary),
      Record("assistant", FALSE, FALSE, NoTimestamp,
             Some(TokenUsage(10, 5, None, None)), "u3", NoSummary),
      Record("user", FALSE, TRUE, NoTimestamp, Absent, "u4", NoSummary),
      Record("summary", FALSE, FALSE, NoTimestamp, Absent, NoUuid, "title"),
      Record("user", FALSE, FALSE, 7200, Absent, NoUuid, NoSummary) }

LoadFrame == UNCHANGED <<mergeVars, durationVars, usageVars, sessionVars, statsVars, tokenVars, partVars, toolVars, catalogVars, searchVars, renameVars, metaVars, scanVars>>

InitLoad ==
    /\ LoadIdle
    /\ MergeIdle
    /\ DurationIdle
    /\ UsageIdle
    /\ SessionIdle
    /\ StatsIdle
    /\ TokenIdle
    /\ PartsIdle
    /\ ToolsIdle
    /\ CatalogIdle
    /\ SearchIdle
    /\ RenameIdle
    /\ MetadataIdle
    /\ ScanIdle

\* Claude Code appends a line to the file.
WriteRecord ==
    /\ Len(jsonl) < MaxRecords
    /\ \E line \in LoadRecords : jsonl' = Append(jsonl, line)
    /\ history' = <<>>
    /\ response' = [command |-> "none"]
    /\ clock' = 0
    /\ LoadFrame

\* The caller takes the response; the next command can be sent.
TakeResponse ==
    /\ response.command # "none"
    /\ response' = [command |-> "none"]
    /\ UNCHANGED <<jsonl, clock, history>>
    /\ LoadFrame

\* load_session_messages, at most twice on an unchanged file; the second
\* call reads the clock at the same instant as the first or later.
LoadSessionMessages ==
    /\ Len(history) < 2
    /\ \E now \in {clock, clock + 1} :
          /\ clock' = now
          /\ history' = Append(history,
                               load_session_messages(jsonl, Now + now, Len(history) + 1))
    /\ UNCHANGED <<jsonl, response>>
    /\ LoadFrame

LoadPage ==
    /\ response.command = "none"
    /\ \E offset \in 0..MaxRecords, limit \in 1..2, exclude \in BOOLEAN :
          response' = load_session_messages_paginated(jsonl, offset, limit, exclude,
                                                      Now + clock, 0)
    /\ UNCHANGED <<jsonl, clock, history>>
    /\ LoadFrame

CountMessages ==
    /\ response.command = "none"
    /\ \E exclude \in BOOLEAN : response' = get_session_message_count(jsonl, exclude)
    /\ UNCHANGED <<jsonl, clock, history>>
    /\ LoadFrame

\* load_project_sessions on the directory that holds the file.
LoadSession ==
    /\ response.command = "none"
    /\ \E exclude \in BOOLEAN :
          response' = load_session_from_file(jsonl, exclude, Now + clock)
    /\ UNCHANGED <<jsonl, clock, history>>
    /\ LoadFrame

\* The project and the global summary over the project that holds the file.
SummariseFile ==
    /\ response.command = "none"
    /\ \E mode \in Modes :
          LET sessions == <<[project |-> "claude", lines |-> jsonl]>>
          IN response' =
                [command |-> "statistics", mode |-> mode,
                 project |-> get_project_stats_summary(sessions, "claude", NoRange, mode),
                 global |-> get_global_stats_summary(sessions, {"claude"}, mode)]
    /\ UNCHANGED <<jsonl, clock, history>>
    /\ LoadFrame

NextLoad ==
    \/ WriteRecord
    \/ TakeResponse
    \/ LoadSessionMessages
    \/ LoadPage
    \/ CountMessages
    \/ LoadSession
    \/ SummariseFile

SpecLoad == InitLoad /\ [][NextLoad]_vars


----------------------------------------------------------------------------
(* Claims about what is read from one Claude session file *)

\* The record has neither a session id nor a timestamp.
Unusable(line) ==
    /\ line.message_type # "summary"
    /\ ~line.has_session_id
    /\ line.timestamp = NoTimestamp

Usable(line) == line.message_type # "summary" /\ ~Unusable(line)

\* The file without its unusable records.
UsableFile == SelectSeq(jsonl, LAMBDA line : line.message_type = "summary" \/ Usable(line))

\* The usable records a count covers.
Countable(exclude_sidechain) ==
    Cardinality({i \in 1..Len(jsonl) :
                    /\ Usable(jsonl[i])
                    /\ ~(exclude_sidechain /\ jsonl[i].is_sidechain)})

FromUnusable(message) ==
    \E i \in 1..Len(jsonl) : Unusable(jsonl[i]) /\ message.uuid = jsonl[i].uuid

InList(list, message) == \E k \in 1..Len(list) : list[k] = message

StatisticsOf(lines, mode) ==
    LET sessions == <<[project |-> "claude", lines |-> lines]>>
    IN [project |-> get_project_stats_summary(sessions, "claude", NoRange, mode),
        global |-> get_global_stats_summary(sessions, {"claude"}, mode)]

\* C11: a record with neither session id nor timestamp is in no message list
\* and no page, in no message count and in no statistic of any scope; a
\* record with one of the two is in the full list, its missing fields filled
\* with the defaults.
C11_UnusableRecordDroppedEverywhere ==
    /\ \A n \in 1..Len(history) :
          /\ \A k \in 1..Len(history[n]) : ~FromUnusable(history[n][k])
          /\ \A i \in 1..Len(jsonl) :
                Usable(jsonl[i]) =>
                    \E now \in Now..(Now + 2) :
                        InList(history[n],
                               LineMessage(i, jsonl[i], now, n, "content"))
    /\ response.command = "load_session_messages_paginated" =>
          /\ \A k \in 1..Len(response.messages) : ~FromUnusable(response.messages[k])
          /\ response.total_count = Countable(response.exclude_sidechain)
    /\ response.command = "get_session_message_count" =>
          response.count = Countable(response.exclude_sidechain)
    /\ (response.command = "load_session_from_file" /\ response.found) =>
          response.message_count = Countable(response.exclude_sidechain)
    /\ response.command = "statistics" =>
          \A scope \in {"project", "global"},
             field \in {"total_messages", "total_tokens", "total_session_duration"} :
              response[scope][field] = StatisticsOf(UsableFile, response.mode)[scope][field]

OnlySummaries ==
    /\ jsonl # <<>>
    /\ \A i \in 1..Len(jsonl) : jsonl[i].message_type = "summary"

\* C18: a session file with summary records only yields no session: it is
\* not in the session list and is no session of the project or global
\* statistics.
C18_SummaryAloneIsNoSession ==
    OnlySummaries =>
        /\ response.command = "load_session_from_file" => ~response.found
        /\ response.command = "statistics" =>
              /\ response.project.total_sessions = 0
              /\ response.global.total_sessions = 0

NoSummaryIn(list) == \A k \in 1..Len(list) : list[k].message_type # "summary"

\* C19 as stated: no summary record is in the message list of a session,
\* loaded in full or by page.
C19_NoSummaryInAnyMessageList ==
    /\ \A n \in 1..Len(history) : NoSummaryIn(history[n])
    /\ response.command = "load_session_messages_paginated" =>
          NoSummaryIn(response.messages)

\* The titles of the summary records that carry one, in file order.
Titles ==
    LET titled == SelectSeq(jsonl, LAMBDA line : /\ line.message_type = "summary"
                                                 /\ line.summary # NoSummary)
    IN [k \in 1..Len(titled) |-> titled[k].summary]

ContentOfSummaries(list) ==
    LET summaries == SelectSeq(list, LAMBDA message : message.message_type = "summary")
    IN [k \in 1..Len(summaries) |-> summaries[k].content]

\* C19 amended: no summary record is in a page, nor in the page's total; the
\* full list holds, in file order, one message of type summary for each
\* summary record that carries a title.
C19_NoSummaryInPages ==
    /\ response.command = "load_session_messages_paginated" =>
          /\ NoSummaryIn(response.messages)
          /\ response.total_count =
                Cardinality({i \in 1..Len(jsonl) :
                                /\ jsonl[i].message_type # "summary"
                                /\ ~(response.exclude_sidechain /\ jsonl[i].is_sidechain)})
    /\ \A n \in 1..Len(history) : ContentOfSummaries(history[n]) = Titles

C19_Witness ==
    /\ Titles # <<>>
    /\ Len(jsonl) >= 2
    /\ history # <<>>
    /\ response.command = "load_session_messages_paginated"
    /\ response.messages # <<>>

AllHaveIds == \A i \in 1..Len(jsonl) : jsonl[i].uuid # NoUuid

AllHaveTimestamps == \A i \in 1..Len(jsonl) : jsonl[i].timestamp # NoTimestamp

\* C20 as stated: when every record carries its own id, two loads of the
\* unchanged file return the same list.
C20_ReloadIsIdenticalGivenIds ==
    (Len(history) = 2 /\ AllHaveIds) => history[1] = history[2]

\* C20 amended: when every record carries its own id and its own timestamp,
\* two loads of the unchanged file return the same list.
C20_ReloadIsIdenticalGivenIdsAndTimestamps ==
    (Len(history) = 2 /\ AllHaveIds /\ AllHaveTimestamps) => history[1] = history[2]

C20_Witness ==
    /\ Len(history) = 2
    /\ clock >= 1
    /\ Len(jsonl) >= 2
    /\ AllHaveIds
    /\ AllHaveTimestamps
    /\ history[1] = history[2]
    /\ Len(history[1]) = Len(jsonl)


----------------------------------------------------------------------------
(* SpecTokens: providers/codex.rs load_messages, the token_count events of *)
(* a rollout read line by line                                             *)

MaxLogLines == 4    \* lines of the rollout

NoTotals == <<>>

\* A token_count event: info.total_token_usage and info.last_token_usage,
\* each <<input_tokens, output_tokens>> or absent.
TokenCount(total, last) ==
    [type |-> "event_msg", payload |-> "token_count",
     total_token_usage |-> total, last_token_usage |-> last]

ResponseItem(role) == [type |-> "response_item", payload |-> role]

TokenLogLines ==
    { ResponseItem("assistant"), ResponseItem("user"),
      [type |-> "event_msg", payload |-> "task_started"],
      TokenCount(<<0, 0>>, NoTotals), TokenCount(<<10, 5>>, NoTotals),
      TokenCount(<<25, 9>>, NoTotals), TokenCount(<<20, 12>>, NoTotals),
      TokenCount(NoTotals, <<7, 3>>), TokenCount(NoTotals, NoTotals) }

\* extract_token_totals(payload).or_else(|| extract_last_token_usage(payload)).
\* The cast `as u32` leaves every total below 2^32 as it is, and the totals
\* of the model are below it.
usage_totals(line) ==
    IF line.total_token_usage # NoTotals THEN line.total_token_usage
    ELSE line.last_token_usage

saturating_sub(a, b) == IF a > b THEN a - b ELSE 0

\* The message of a response_item or of a task_started event, without usage.
CodexMessage(message_type) == [message_type |-> message_type, usage |-> Absent]

\* if let Some(last_msg) = messages.last_mut(): the usage goes to the last
\* message when that is an assistant message without usage.
AttachUsage(msgs, delta_input, delta_output) ==
    IF /\ msgs # <<>>
       /\ msgs[Len(msgs)].message_type = "assistant"
       /\ ~msgs[Len(msgs)].usage.present
    THEN [msgs EXCEPT ![Len(msgs)].usage =
              Some(TokenUsage(delta_input, delta_output, None, None))]
    ELSE msgs

TokenFrame ==
    UNCHANGED <<mergeVars, durationVars, usageVars, sessionVars, statsVars, loadVars, partVars, toolVars, catalogVars, searchVars, renameVars, metaVars, scanVars>>

InitTokens ==
    /\ TokenIdle
    /\ MergeIdle
    /\ DurationIdle
    /\ UsageIdle
    /\ SessionIdle
    /\ StatsIdle
    /\ LoadIdle
    /\ PartsIdle
    /\ ToolsIdle
    /\ CatalogIdle
    /\ SearchIdle
    /\ RenameIdle
    /\ MetadataIdle
    /\ ScanIdle

\* One turn of the loop of load_messages, on a response_item or on an
\* event_msg that yields a message.
ReadMessageLine ==
    /\ Len(codex_log) < MaxLogLines
    /\ \E line \in TokenLogLines :
          /\ line.payload # "token_count"
          /\ codex_log' = Append(codex_log, line)
          /\ codex_messages' =
                Append(codex_messages,
                       CodexMessage(IF line.type = "response_item" THEN line.payload
                                    ELSE "progress"))
    /\ UNCHANGED <<prev_input_tokens, prev_output_tokens>>
    /\ TokenFrame

\* One turn of the loop of load_messages, on a token_count event.
ReadTokenCount ==
    /\ Len(codex_log) < MaxLogLines
    /\ \E line \in TokenLogLines :
          /\ line.payload = "token_count"
          /\ codex_log' = Append(codex_log, line)
          /\ IF usage_totals(line) = NoTotals
             THEN UNCHANGED <<codex_messages, prev_input_tokens, prev_output_tokens>>
             ELSE LET input == usage_totals(line)[1]
                      output == usage_totals(line)[2]
                      first == prev_input_tokens = 0 /\ prev_output_tokens = 0
                      delta_input == IF first THEN input
                                     ELSE saturating_sub(input, prev_input_tokens)
                      delta_output == IF first THEN output
                                      ELSE saturating_sub(output, prev_output_tokens)
                  IN /\ prev_input_tokens' = input
                     /\ prev_output_tokens' = output
                     /\ codex_messages' =
                           AttachUsage(codex_messages, delta_input, delta_output)
    /\ TokenFrame

NextTokens == ReadMessageLine \/ ReadTokenCount

SpecTokens == InitTokens /\ [][NextTokens]_vars

----------------------------------------------------------------------------
(* Claim about the usage a token_count event attaches *)

\* The cumulative totals reported before the end of the log, <<0, 0>> when
\* no event reported any.
PreviousTotals(log) ==
    LET reported == SelectSeq(log, LAMBDA line : /\ line.payload = "token_count"
                                                 /\ line.total_token_usage # NoTotals)
    IN IF reported = <<>> THEN <<0, 0>>
       ELSE reported[Len(reported)].total_token_usage

LackingUsage(msgs) ==
    {i \in 1..Len(msgs) : msgs[i].message_type = "assistant" /\ ~msgs[i].usage.present}

\* C12: when a token_count event reports cumulative totals T after the
\* totals P, the most recent assistant message of the list that has no usage
\* gets the usage T - P, each counter saturating at 0 (T for the first event).
C12_DeltaGoesToLatestAssistantLackingUsage ==
    [][ LET line == codex_log'[Len(codex_log')]
            T == line.total_token_usage
            P == PreviousTotals(codex_log)
        IN (/\ line.payload = "token_count"
            /\ T # NoTotals
            /\ LackingUsage(codex_messages) # {})
           => codex_messages'[SetMax(LackingUsage(codex_messages))].usage =
                 Some(TokenUsage(saturating_sub(T[1], P[1]),
                                 saturating_sub(T[2], P[2]), None, None))
      ]_vars

----------------------------------------------------------------------------
(* providers/opencode.rs: the usage of a message and of its parts *)

\* Option<u32> addition; the sums of the model stay far below u32::MAX, where
\* saturating_add is the addition.
sum_opt(a, b) ==
    IF a # None /\ b # None THEN a + b
    ELSE IF a # None THEN a
    ELSE b

\* A part file: its type and, for a step-finish part, its tokens object
\* (input, output, cache.write, cache.read).
Part(type, tokens) == [type |-> type, tokens |-> tokens]

StepFinishOverwriting(usage, part) ==
    IF part.type = "step-finish" /\ part.tokens.present
    THEN Some(part.tokens.usage)
    ELSE usage

\* The arm of process_parts for one part: the usage after it.
StepFinish(usage, part) ==
    IF part.type = "step-finish" /\ part.tokens.present
    THEN LET prev == usage.usage
             new_usage == part.tokens.usage
         IN IF usage.present
            THEN Some(TokenUsage(
                     sum_opt(prev.input_tokens, new_usage.input_tokens),
                     sum_opt(prev.output_tokens, new_usage.output_tokens),
                     sum_opt(prev.cache_creation_input_tokens,
                             new_usage.cache_creation_input_tokens),
                     sum_opt(prev.cache_read_input_tokens,
                             new_usage.cache_read_input_tokens)))
            ELSE Some(new_usage)
    ELSE usage

RECURSIVE PartsFrom(_, _, _)
PartsFrom(parts, i, usage) ==
    IF i > Len(parts) THEN usage
    ELSE PartsFrom(parts, i + 1, StepFinish(usage, parts[i]))

\* The usage process_parts returns.
process_parts(parts) == PartsFrom(parts, 1, Absent)

\* Option::or.
Or(a, b) == IF a.present THEN a ELSE b

\* The usage of the message load_messages pushes: the tokens of the message
\* file (input and output only) or else the usage of the parts.
opencode_load_message(tokens, parts) ==
    LET usage == IF tokens.present
                 THEN Some(TokenUsage(tokens.usage.input_tokens,
                                      tokens.usage.output_tokens, None, None))
                 ELSE Absent
        parts_usage == process_parts(parts)
    IN [loaded |-> TRUE, usage |-> Or(usage, parts_usage)]

----------------------------------------------------------------------------
(* Specification: one OpenCode message, its parts written and loaded *)

MaxParts == 3

\* The part files the model writes.
PartValues ==
    { Part("text", Absent),
      Part("step-finish", Absent),
      Part("step-finish", Some(TokenUsage(3, 2, None, 1))),
      Part("step-finish", Some(TokenUsage(5, None, 4, 1))) }

\* The tokens objects of a message file.
MessageTokens == { Some(TokenUsage(7, 1, None, None)), Some(TokenUsage(None, 6, None, None)) }

PartsFrame ==
    UNCHANGED <<mergeVars, durationVars, usageVars, sessionVars, statsVars, loadVars, tokenVars, toolVars, catalogVars, searchVars, renameVars, metaVars, scanVars>>

InitParts ==
    /\ PartsIdle
    /\ MergeIdle
    /\ DurationIdle
    /\ UsageIdle
    /\ SessionIdle
    /\ StatsIdle
    /\ LoadIdle
    /\ TokenIdle
    /\ ToolsIdle
    /\ CatalogIdle
    /\ SearchIdle
    /\ RenameIdle
    /\ MetadataIdle
    /\ ScanIdle

\* OpenCode writes one more part file of the message.
WritePart ==
    /\ Len(part_values) < MaxParts
    /\ \E part \in PartValues : part_values' = Append(part_values, part)
    /\ opencode_message' = [loaded |-> FALSE]
    /\ UNCHANGED message_tokens
    /\ PartsFrame

\* OpenCode writes the tokens object of the message file.
WriteTokens ==
    /\ ~message_tokens.present
    /\ \E tokens \in MessageTokens : message_tokens' = tokens
    /\ opencode_message' = [loaded |-> FALSE]
    /\ UNCHANGED part_values
    /\ PartsFrame

\* load_messages, for this message.
LoadOpenCodeMessage ==
    /\ ~opencode_message.loaded
    /\ opencode_message' = opencode_load_message(message_tokens, part_values)
    /\ UNCHANGED <<part_values, message_tokens>>
    /\ PartsFrame

NextParts == WritePart \/ WriteTokens \/ LoadOpenCodeMessage

SpecParts == InitParts /\ [][NextParts]_vars

----------------------------------------------------------------------------
(* Claim about the usage of a message with several step-finish parts *)

Counters ==
    {"input_tokens", "output_tokens", "cache_creation_input_tokens",
     "cache_read_input_tokens"}

\* The value a counter reports, 0 when it is absent.
Reported(counter) == IF counter = None THEN 0 ELSE counter

StepFinishParts(parts) ==
    SelectSeq(parts, LAMBDA part : part.type = "step-finish" /\ part.tokens.present)

\* The sum of one counter over the step-finish parts.
SumOfParts(parts, counter) ==
    SeqSum([i \in 1..Len(StepFinishParts(parts)) |->
               Reported(StepFinishParts(parts)[i].tokens.usage[counter])])

UsageIsSumOfParts ==
    \A counter \in Counters :
       Reported(opencode_message.usage.usage[counter]) = SumOfParts(part_values, counter)

\* C13: a loaded message with several step-finish parts reports, in each
\* token counter, the sum of that counter over its step-finish parts.
C13_UsageIsSumOfStepFinishParts ==
    (opencode_message.loaded /\ Len(StepFinishParts(part_values)) >= 2)
       => UsageIsSumOfParts

\* C13, amended: the same, for a message whose file has no tokens object.
C13_UsageIsSumOfStepFinishPartsWithoutTokens ==
    (/\ opencode_message.loaded
     /\ Len(StepFinishParts(part_values)) >= 2
     /\ ~message_tokens.present)
       => UsageIsSumOfParts

\* Two step-finish parts with different counters were summed: 3 + 5 input
\* tokens, 2 output tokens, 4 cache-write and 1 + 1 cache-read tokens.
C13_Witness ==
    /\ opencode_message.loaded
    /\ ~message_tokens.present
    /\ Len(StepFinishParts(part_values)) = 2
    /\ opencode_message.usage = Some(TokenUsage(8, 2, 4, 2))

----------------------------------------------------------------------------
(* commands/stats.rs: tool usage and success counts *)

\* The names of the tools; a map entry that was never inserted reads (0, 0).
ToolNames == {"Read", "Bash"}

\* An is_error key: "absent", or the boolean it holds.
IsError(flag) == flag = "true"

\* A tool_use item of a content array.
ToolUseItem(name, is_error) == [type |-> "tool_use", name |-> name, is_error |-> is_error]

NoTool == "none"
NoResult == [present |-> FALSE, is_error |-> "absent"]
ToolUseResult(is_error) == [present |-> TRUE, is_error |-> is_error]

\* The fields of a message that tool statistics read.
ToolMessage(message_type, content, tool_use, tool_use_result) ==
    [message_type |-> message_type, content |-> content,
     tool_use |-> tool_use, tool_use_result |-> tool_use_result]

\* tool_entry.0 += 1, and tool_entry.1 += 1 on success.
Bump(usage, name, success) ==
    [usage EXCEPT ![name] = <<@[1] + 1, IF success THEN @[2] + 1 ELSE @[2]>>]

RECURSIVE TrackContent(_, _, _)
TrackContent(content, i, usage) ==
    IF i > Len(content) THEN usage
    ELSE TrackContent(content, i + 1,
            IF content[i].type = "tool_use"
            THEN Bump(usage, content[i].name, ~IsError(content[i].is_error))
            ELSE usage)

track_tool_usage(message, usage) ==
    LET from_content == IF message.message_type = "assistant"
                        THEN TrackContent(message.content, 1, usage)
                        ELSE usage
    IN IF message.tool_use # NoTool
       THEN Bump(from_content, message.tool_use,
                 /\ message.tool_use_result.present
                 /\ ~IsError(message.tool_use_result.is_error))
       ELSE from_content

track_tool_usage_from_global_entry(global_entry, usage) ==
    LET from_content == IF global_entry.message_type = "assistant"
                        THEN TrackContent(global_entry.content, 1, usage)
                        ELSE usage
    IN IF global_entry.tool_use # NoTool
       THEN Bump(from_content, global_entry.tool_use,
                 /\ global_entry.tool_use_result.present
                 /\ ~IsError(global_entry.tool_use_result.is_error))
       ELSE from_content

----------------------------------------------------------------------------
(* Specification: the messages of a session tracked for tool statistics *)

MaxTracked == 2

ToolContents ==
    { <<>>,
      <<ToolUseItem("Read", "absent")>>,
      <<ToolUseItem("Read", "true"), ToolUseItem("Bash", "false")>> }

ToolMessages ==
    { ToolMessage(type, content, tool_use, result) :
        type \in {"assistant", "user"},
        content \in ToolContents,
        tool_use \in {NoTool, "Bash"},
        result \in {NoResult, ToolUseResult("absent"), ToolUseResult("true")} }

ToolsFrame ==
    UNCHANGED <<mergeVars, durationVars, usageVars, sessionVars, statsVars, loadVars, tokenVars, partVars, catalogVars, searchVars, renameVars, metaVars, scanVars>>

InitTools ==
    /\ ToolsIdle
    /\ MergeIdle
    /\ DurationIdle
    /\ UsageIdle
    /\ SessionIdle
    /\ StatsIdle
    /\ LoadIdle
    /\ TokenIdle
    /\ PartsIdle
    /\ CatalogIdle
    /\ SearchIdle
    /\ RenameIdle
    /\ MetadataIdle
    /\ ScanIdle

\* One turn of the loop over the messages of a session, in the session and
\* project statistics and in the global statistics.
TrackMessage ==
    /\ Len(tracked) < MaxTracked
    /\ \E message \in ToolMessages :
          /\ tracked' = Append(tracked, message)
          /\ tool_usage' = track_tool_usage(message, tool_usage)
          /\ global_tool_usage' =
                track_tool_usage_from_global_entry(message, global_tool_usage)
    /\ ToolsFrame

NextTools == TrackMessage

SpecTools == InitTools /\ [][NextTools]_vars

----------------------------------------------------------------------------
(* Claim about the success count of a tool *)

\* The invocations of a message: the flag of each one's result, "absent"
\* when the invocation has no result or the result has no is_error key.
InvocationFlags(message, name) ==
    LET items == IF message.message_type = "assistant"
                 THEN SelectSeq(message.content,
                                LAMBDA item : item.type = "tool_use" /\ item.name = name)
                 ELSE <<>>
        explicit == IF message.tool_use = name
                    THEN <<message.tool_use_result.is_error>>
                    ELSE <<>>
    IN [i \in 1..Len(items) |-> items[i].is_error] \o explicit

\* The invocations of a tool, over the tracked messages, whose result is not
\* flagged as an error.
Unflagged(name) ==
    SeqSum([k \in 1..Len(tracked) |->
               Len(SelectSeq(InvocationFlags(tracked[k], name),
                             LAMBDA flag : flag # "true"))])

\* C14: the success count of a tool is the number of its invocations whose
\* result does not carry is_error = true.
C14_SuccessUnlessFlaggedAsError ==
    \A name \in ToolNames :
       /\ tool_usage[name][2] = Unflagged(name)
       /\ global_tool_usage[name][2] = Unflagged(name)

----------------------------------------------------------------------------
(* providers/codex.rs: projects grouped by the recorded working directory *)

\* SessionInfo.cwd is None: no session_meta line, or one without a cwd string.
NoCwd == "<none>"

\* Option::unwrap_or on a cwd.
cwd_or(cwd, default) == IF cwd = NoCwd THEN default ELSE cwd

\* format!("codex://{cwd}") and its inverse strip_prefix("codex://").
CodexPath(cwd) == [scheme |-> "codex://", cwd |-> cwd]
strip_prefix(project_path) == project_path.cwd

\* The projects of scan_projects: one per key of project_map, with the
\* number of rollouts grouped under it.
codex_scan_projects(infos) ==
    LET key(i) == cwd_or(infos[i], "unknown")
        keys == {key(i) : i \in 1..Len(infos)}
    IN { [path |-> CodexPath(cwd), actual_path |-> cwd,
          session_count |-> Cardinality({i \in 1..Len(infos) : key(i) = cwd})]
         : cwd \in keys }

\* The sessions of load_sessions, each named by the index of its rollout.
codex_load_sessions(infos, project_path) ==
    LET target_cwd == strip_prefix(project_path)
    IN {i \in 1..Len(infos) : cwd_or(infos[i], "") = target_cwd}

----------------------------------------------------------------------------
(* Specification: Codex rollouts written, the catalog scanned and opened *)

MaxRollouts == 3

\* The working directories a rollout records: none, the empty string, two
\* directories.
RecordedCwds == {NoCwd, "", "/work/app", "/work/lib"}

CatalogFrame ==
    UNCHANGED <<mergeVars, durationVars, usageVars, sessionVars, statsVars, loadVars, tokenVars, partVars, toolVars, searchVars, renameVars, metaVars, scanVars>>

InitCatalog ==
    /\ CatalogIdle
    /\ MergeIdle
    /\ DurationIdle
    /\ UsageIdle
    /\ SessionIdle
    /\ StatsIdle
    /\ LoadIdle
    /\ TokenIdle
    /\ PartsIdle
    /\ ToolsIdle
    /\ SearchIdle
    /\ RenameIdle
    /\ MetadataIdle
    /\ ScanIdle

\* Codex writes one more rollout file.
WriteRollout ==
    /\ Len(rollouts) < MaxRollouts
    /\ \E cwd \in RecordedCwds : rollouts' = Append(rollouts, cwd)
    /\ catalog' = [scanned |-> FALSE]
    /\ listing' = [loaded |-> FALSE]
    /\ CatalogFrame

\* The command scan_projects.
ScanProjects ==
    /\ ~catalog.scanned
    /\ catalog' = [scanned |-> TRUE, projects |-> codex_scan_projects(rollouts)]
    /\ listing' = [loaded |-> FALSE]
    /\ UNCHANGED rollouts
    /\ CatalogFrame

\* The command load_sessions, on a project of the catalog.
LoadSessions ==
    /\ catalog.scanned
    /\ \E project \in catalog.projects :
          listing' = [loaded |-> TRUE, project |-> project,
                      sessions |-> codex_load_sessions(rollouts, project.path)]
    /\ UNCHANGED <<rollouts, catalog>>
    /\ CatalogFrame

NextCatalog == WriteRollout \/ ScanProjects \/ LoadSessions

SpecCatalog == InitCatalog /\ [][NextCatalog]_vars

----------------------------------------------------------------------------
(* Claim about sessions without a grouping key *)

\* The rollouts whose grouping key is missing or empty.
Keyless == {i \in 1..Len(rollouts) : rollouts[i] \in {NoCwd, ""}}

\* C15: once the catalog is scanned, every rollout without a recorded
\* working directory is counted under a project "unknown", and the sessions
\* loaded for that project contain it.
C15_KeylessSessionListedUnderUnknown ==
    (catalog.scanned /\ Keyless # {}) =>
       /\ \E project \in catalog.projects :
             /\ project.actual_path = "unknown"
             /\ project.session_count >= Cardinality(Keyless)
       /\ (listing.loaded /\ listing.project.actual_path = "unknown")
             => Keyless \subseteq listing.sessions

----------------------------------------------------------------------------
(* commands/session/search.rs, commands/multi_provider.rs: search *)

SearchProviders == {"claude", "codex", "opencode"}

\* parse_filter_date returns None: the bound is no RFC 3339 string.
BadDate == -1

\* The dateRange key of the filters: absent, or an array of bounds, each an
\* instant or BadDate.
NoDateRange == [present |-> FALSE, items |-> <<>>]
DateRange(items) == [present |-> TRUE, items |-> items]

Filters(message_type, date_range) == [messageType |-> message_type, dateRange |-> date_range]

\* A session file holding one message with a parseable timestamp; text is
\* the lower-cased content the query is looked up in.
SearchMessage(p, uuid, ts, type, text) ==
    [provider |-> p, uuid |-> uuid, timestamp |-> ts, message_type |-> type, text |-> text]

\* TRUE for Ok(()), FALSE for Err.
validate_accepting_inverted(filters) ==
    LET date_range == filters.dateRange.items
    IN IF ~filters.dateRange.present THEN TRUE
       ELSE IF Len(date_range) # 2 THEN FALSE
       ELSE IF date_range[1] = BadDate THEN FALSE
       ELSE IF date_range[2] = BadDate THEN FALSE
       ELSE TRUE

\* TRUE for Ok(()), FALSE for Err.
validate_search_filters(filters) ==
    LET date_range == filters.dateRange.items
    IN IF ~filters.dateRange.present THEN TRUE
       ELSE IF Len(date_range) # 2 THEN FALSE
       ELSE IF date_range[1] = BadDate THEN FALSE
       ELSE IF date_range[2] = BadDate THEN FALSE
       ELSE IF date_range[1] > date_range[2] THEN FALSE
       ELSE TRUE

matches_filters(message, filters) ==
    LET date_range == filters.dateRange.items
    IN /\ filters.messageType # "all" => message.message_type = filters.messageType
       /\ (filters.dateRange.present /\ Len(date_range) = 2) =>
             /\ date_range[1] # BadDate
             /\ date_range[2] # BadDate
             /\ message.timestamp >= date_range[1]
             /\ message.timestamp <= date_range[2]

apply_search_filters(msgs, filters) ==
    SelectSeq(msgs, LAMBDA message : matches_filters(message, filters))

\* The content of the message contains the query.
search_in_value(message, query_lower) == message.text = query_lower

\* The place of a message in a list sorted newest first; sort_by is stable.
RECURSIVE InsertNewest(_, _)
InsertNewest(sorted, message) ==
    IF sorted = <<>> THEN <<message>>
    ELSE IF Head(sorted).timestamp >= message.timestamp
         THEN <<Head(sorted)>> \o InsertNewest(Tail(sorted), message)
         ELSE <<message>> \o sorted

RECURSIVE SortNewestFrom(_, _, _)
SortNewestFrom(msgs, i, sorted) ==
    IF i > Len(msgs) THEN sorted
    ELSE SortNewestFrom(msgs, i + 1, InsertNewest(sorted, msgs[i]))

\* sort_by descending timestamp, then truncate(max_results).
SortAndTruncate(msgs, max_results) ==
    SubSeq(SortNewestFrom(msgs, 1, <<>>), 1, Min(max_results, Len(msgs)))

NoneOpened == [p \in SearchProviders |-> 0]

SearchError == [status |-> "err", messages |-> <<>>, opened |-> NoneOpened]

\* search_messages over the Claude session files: every file is searched.
search_messages(files, query_lower, filters, max_results) ==
    IF ~validate_search_filters(filters) THEN SearchError
    ELSE LET all_messages ==
                 SelectSeq(files, LAMBDA message : search_in_value(message, query_lower))
         IN [status |-> "ok",
             messages |-> SortAndTruncate(apply_search_filters(all_messages, filters),
                                          max_results),
             opened |-> [NoneOpened EXCEPT !["claude"] = Len(files)]]

\* The loop of codex::search and of opencode::search over the session
\* files: it returns as soon as `limit` results are held.
RECURSIVE SearchFrom(_, _, _, _, _)
SearchFrom(files, i, query_lower, limit, results) ==
    IF i > Len(files) THEN [messages |-> results, opened |-> Len(files)]
    ELSE IF Len(results) >= limit THEN [messages |-> results, opened |-> i]
    ELSE SearchFrom(files, i + 1, query_lower, limit,
                    IF search_in_value(files[i], query_lower)
                    THEN Append(results, files[i])
                    ELSE results)

provider_search(files, query_lower, limit) == SearchFrom(files, 1, query_lower, limit, <<>>)

search_all_providers(sessions, query_lower, active_providers, filters, max_results) ==
    IF ~validate_search_filters(filters) THEN SearchError
    ELSE LET skipped == [messages |-> <<>>, opened |-> 0]
             claude == IF "claude" \in active_providers
                       THEN LET found == search_messages(sessions["claude"], query_lower,
                                                         filters, max_results)
                            IN [messages |-> found.messages,
                                opened |-> found.opened["claude"]]
                       ELSE skipped
             codex == IF "codex" \in active_providers
                      THEN provider_search(sessions["codex"], query_lower, max_results)
                      ELSE skipped
             opencode == IF "opencode" \in active_providers
                         THEN provider_search(sessions["opencode"], query_lower, max_results)
                         ELSE skipped
             all_results == claude.messages \o codex.messages \o opencode.messages
         IN [status |-> "ok",
             messages |-> SortAndTruncate(apply_search_filters(all_results, filters),
                                          max_results),
             opened |-> [claude |-> claude.opened, codex |-> codex.opened,
                         opencode |-> opencode.opened]]

----------------------------------------------------------------------------
(* Specification: session files written and searched *)

MaxCorpus == 3

\* The query of every search.
Needle == "needle"

\* The messages a session file may hold: timestamp, type, content.
SearchKinds == { <<3600, "user", "needle">>, <<7200, "assistant", "needle">>,
                 <<7200, "user", "hay">> }

SearchFilters ==
    { Filters("all", NoDateRange),
      Filters("assistant", NoDateRange),
      Filters("all", DateRange(<<3600, 7200>>)),
      Filters("all", DateRange(<<7200, 3600>>)),
      Filters("all", DateRange(<<BadDate, 7200>>)),
      Filters("all", DateRange(<<3600, BadDate>>)),
      Filters("all", DateRange(<<3600>>)) }

ActiveProviders == { SearchProviders, {"codex", "opencode"} }

SearchLimits == {1, 2}

CorpusSize == Len(corpus["claude"]) + Len(corpus["codex"]) + Len(corpus["opencode"])

SearchFrame ==
    UNCHANGED <<mergeVars, durationVars, usageVars, sessionVars, statsVars, loadVars, tokenVars, partVars, toolVars, catalogVars, renameVars, metaVars, scanVars>>

InitSearch ==
    /\ SearchIdle
    /\ MergeIdle
    /\ DurationIdle
    /\ UsageIdle
    /\ SessionIdle
    /\ StatsIdle
    /\ LoadIdle
    /\ TokenIdle
    /\ PartsIdle
    /\ ToolsIdle
    /\ CatalogIdle
    /\ RenameIdle
    /\ MetadataIdle
    /\ ScanIdle

\* A provider writes one more session file.
WriteSessionFile ==
    /\ search_response.command = "none"
    /\ CorpusSize < MaxCorpus
    /\ \E p \in SearchProviders, kind \in SearchKinds :
          corpus' = [corpus EXCEPT ![p] =
                        Append(@, SearchMessage(p, Len(@) + 1, kind[1], kind[2], kind[3]))]
    /\ UNCHANGED search_response
    /\ SearchFrame

\* The command search_messages.
SearchMessages ==
    /\ search_response.command = "none"
    /\ \E filters \in SearchFilters, limit \in SearchLimits :
          search_response' =
             [command |-> "search_messages", active |-> {"claude"},
              filters |-> filters, limit |-> limit]
             @@ search_messages(corpus["claude"], Needle, filters, limit)
    /\ UNCHANGED corpus
    /\ SearchFrame

\* The command search_all_providers.
SearchAllProviders ==
    /\ search_response.command = "none"
    /\ \E active \in ActiveProviders, filters \in SearchFilters, limit \in SearchLimits :
          search_response' =
             [command |-> "search_all_providers", active |-> active,
              filters |-> filters, limit |-> limit]
             @@ search_all_providers(corpus, Needle, active, filters, limit)
    /\ UNCHANGED corpus
    /\ SearchFrame

\* The caller takes the result.
TakeSearchResponse ==
    /\ search_response.command # "none"
    /\ search_response' = [command |-> "none"]
    /\ UNCHANGED corpus
    /\ SearchFrame

NextSearch == WriteSessionFile \/ SearchMessages \/ SearchAllProviders \/ TakeSearchResponse

SpecSearch == InitSearch /\ [][NextSearch]_vars

----------------------------------------------------------------------------
(* Claims about search *)

\* The messages of the active providers that match the query and the
\* filters of the response.
Matching ==
    UNION { { corpus[p][i] : i \in {k \in 1..Len(corpus[p]) :
                                       /\ corpus[p][k].text = Needle
                                       /\ matches_filters(corpus[p][k],
                                                          search_response.filters)} }
            : p \in search_response.active }

Returned == {search_response.messages[i] : i \in 1..Len(search_response.messages)}

\* C16: a successful search_all_providers returns min(L, matching) distinct
\* matching messages, newest first, none older than a matching message left
\* out, and has opened every session file of every active provider.
C16_NewestMatchesAfterFullScan ==
    (search_response.command = "search_all_providers" /\ search_response.status = "ok") =>
       /\ Len(search_response.messages) = Min(search_response.limit, Cardinality(Matching))
       /\ Cardinality(Returned) = Len(search_response.messages)
       /\ Returned \subseteq Matching
       /\ \A i \in 1..(Len(search_response.messages) - 1) :
             search_response.messages[i].timestamp >=
                search_response.messages[i + 1].timestamp
       /\ \A kept \in Returned, left \in Matching \ Returned :
             kept.timestamp >= left.timestamp
       /\ \A p \in search_response.active : search_response.opened[p] = Len(corpus[p])

\* A dateRange with an unparseable bound, or with a start after its end.
InvalidDateRange(filters) ==
    /\ filters.dateRange.present
    /\ \/ \E i \in 1..Len(filters.dateRange.items) : filters.dateRange.items[i] = BadDate
       \/ /\ Len(filters.dateRange.items) = 2
          /\ filters.dateRange.items[1] > filters.dateRange.items[2]

\* C17: a search whose dateRange has an unparseable bound or a start after
\* its end returns an error and has opened no session file.
C17_InvalidDateRangeIsRejectedBeforeScan ==
    (search_response.command # "none" /\ InvalidDateRange(search_response.filters)) =>
       /\ search_response.status = "err"
       /\ \A p \in SearchProviders : search_response.opened[p] = 0

\* search_all_providers rejected an inverted range although every provider
\* holds a session file whose message matches the query.
C17_Witness ==
    /\ search_response.command = "search_all_providers"
    /\ search_response.filters = Filters("all", DateRange(<<7200, 3600>>))
    /\ search_response.status = "err"
    /\ \A p \in SearchProviders : \E i \in 1..Len(corpus[p]) : corpus[p][i].text = Needle

----------------------------------------------------------------------------
(* Claim about walking the pages of a session file *)

\* The pages a caller gets that starts at offset 0 and asks for the page at
\* the returned next_offset while has_more holds, at most `turns` more times.
RECURSIVE PagesFrom(_, _, _, _, _)
PagesFrom(lines, offset, limit, exclude_sidechain, turns) ==
    LET page == load_session_messages_paginated(lines, offset, limit, exclude_sidechain,
                                                Now, 0)
    IN IF ~page.has_more \/ turns = 0 THEN <<page>>
       ELSE <<page>> \o PagesFrom(lines, page.next_offset, limit, exclude_sidechain,
                                  turns - 1)

\* The messages of the pages, the oldest page first.
RECURSIVE MessagesOfPages(_)
MessagesOfPages(pages) ==
    IF pages = <<>> THEN <<>>
    ELSE MessagesOfPages(Tail(pages)) \o Head(pages).messages

\* The messages of the counted lines, one for each line that has one.
MessagesOfCounted(lines, exclude_sidechain) ==
    ParseLines(lines,
               SelectSeq([i \in 1..Len(lines) |-> i],
                         LAMBDA i : classify_line(lines[i], exclude_sidechain)),
               FALSE, Now, 0)

\* C25: for every limit and sidechain setting, the walk over the pages of
\* the file ends within one page per line, and its pages hold, each line
\* once and in file order, total_count messages: those of the counted lines.
C25_PagesPartitionTheCountedLines ==
    \A limit \in 1..2, exclude_sidechain \in BOOLEAN :
       LET pages == PagesFrom(jsonl, 0, limit, exclude_sidechain, Len(jsonl))
           walked == MessagesOfPages(pages)
       IN /\ ~pages[Len(pages)].has_more
          /\ Len(walked) = pages[1].total_count
          /\ walked = MessagesOfCounted(jsonl, exclude_sidechain)

----------------------------------------------------------------------------
(* Claim about the sum of the usage attached over a rollout *)

\* The cumulative totals the token_count events of the log report, in order.
ReportedTotals(log) ==
    LET reported == SelectSeq(log, LAMBDA line : /\ line.payload = "token_count"
                                                 /\ line.total_token_usage # NoTotals)
    IN [i \in 1..Len(reported) |-> reported[i].total_token_usage]

NeverDecreasing(totals) ==
    \A i \in 1..(Len(totals) - 1) :
       totals[i][1] <= totals[i + 1][1] /\ totals[i][2] <= totals[i + 1][2]

\* The sum of one counter over the usage attached to the messages.
AttachedSum(msgs, counter) ==
    SeqSum([i \in 1..Len(msgs) |->
               IF msgs[i].usage.present THEN msgs[i].usage.usage[counter] ELSE 0])

\* C26: when the cumulative totals of a rollout never decrease, the input
\* and the output tokens attached to its messages add up to the last totals
\* reported.
C26_AttachedUsageSumsToLastTotals ==
    LET totals == ReportedTotals(codex_log)
    IN (totals # <<>> /\ NeverDecreasing(totals)) =>
          /\ AttachedSum(codex_messages, "input_tokens") = totals[Len(totals)][1]
          /\ AttachedSum(codex_messages, "output_tokens") = totals[Len(totals)][2]

----------------------------------------------------------------------------
(* Claim about the content blocks a merge keeps *)

\* How often a block occurs over the messages of a list.
Occurrences(msgs, block) ==
    SeqSum([i \in 1..Len(msgs) |->
               Len(SelectSeq(msgs[i].content.blocks, LAMBDA b : b = block))])

BlocksOf(msgs) ==
    UNION { {msgs[i].content.blocks[j] : j \in 1..Len(msgs[i].content.blocks)}
            : i \in 1..Len(msgs) }

SameBlocks(input, output) ==
    \A block \in BlocksOf(input) \cup BlocksOf(output) :
       Occurrences(input, block) = Occurrences(output, block)

\* The messages convert_codex_item and convert_codex_event yield for the
\* lines of the rollout, before any merge.
Converted(lines) ==
    [i \in 1..Len(lines) |->
        IF lines[i].kind = "task_started" THEN convert_codex_event(lines[i], i)
        ELSE convert_codex_item(lines[i], i)]

\* C30: the generic merger returns the content blocks of its input, each as
\* often as the input holds it, and so does the Codex parser for the blocks
\* of the messages its lines convert to.
C30_MergeKeepsTheMultisetOfBlocks ==
    /\ SameBlocks(messages, merged)
    /\ provider = "codex" => SameBlocks(Converted(rollout), messages)

\* A Codex rollout in which the parser merged one tool result and the
\* generic merger had a message with a tool result left to look at.
C30_Witness ==
    /\ provider = "codex"
    /\ Len(messages) = Len(rollout) - 1
    /\ \E i \in 1..Len(messages) :
          /\ messages[i].message_type = "user"
          /\ HasToolResultBlock(messages[i])
    /\ \E i \in 1..Len(messages) : Len(messages[i].content.blocks) = 2

----------------------------------------------------------------------------
(* Claim about the session count of a project *)

\* C24: for each project, the total_sessions of the summary is the number
\* of sessions in the per-session token statistics loaded with the same
\* mode and date range.
C24_SummaryCountsTheSessionsOfTheList ==
    query.loaded =>
       \A project \in Projects :
          project_view[project].total_sessions = Len(session_view[project])

----------------------------------------------------------------------------
(* commands/session/rename.rs: rename_session_native *)

\* A text is a sequence of characters.
IsWhitespace(c) == c = " "

RECURSIVE trim_start(_)
trim_start(text) ==
    IF text # <<>> /\ IsWhitespace(Head(text)) THEN trim_start(Tail(text)) ELSE text

RECURSIVE trim_end(_)
trim_end(text) ==
    IF text # <<>> /\ IsWhitespace(text[Len(text)])
    THEN trim_end(SubSeq(text, 1, Len(text) - 1))
    ELSE text

trim(text) == trim_end(trim_start(text))

\* message.find(']'): the index of the first ']', 0 when there is none.
find(text, c) ==
    LET S == {i \in 1..Len(text) : text[i] = c}
    IN IF S = {} THEN 0 ELSE SetMin(S)

strip_title_prefix_untrimmed(message) ==
    IF message # <<>> /\ Head(message) = "[" /\ find(message, "]") # 0
    THEN SubSeq(message, find(message, "]") + 1, Len(message))
    ELSE message

strip_title_prefix(message) ==
    IF message # <<>> /\ Head(message) = "[" /\ find(message, "]") # 0
    THEN trim_start(SubSeq(message, find(message, "]") + 1, Len(message)))
    ELSE message

\* format!("[{}] {}", new_title.trim(), base_message), or the base message
\* for a title that trims to nothing.
new_message(new_title, current_message) ==
    LET base_message == strip_title_prefix(current_message)
    IN IF trim(new_title) = <<>> THEN base_message
       ELSE <<"[">> \o trim(new_title) \o <<"]", " ">> \o base_message

\* A record of the session file: its type, isMeta and the text
\* extract_message_content returns.
SessionRecord(type, is_meta, text) == [type |-> type, is_meta |-> is_meta, text |-> text]

\* find_first_user_message_index: 0 for Err(NoUserMessage).
find_first_user_message_index(lines) ==
    LET S == {i \in 1..Len(lines) : lines[i].type = "user" /\ ~lines[i].is_meta}
    IN IF S = {} THEN 0 ELSE SetMin(S)

\* Steps 5 to 11: the lines with the first user message retitled.
Retitled(lines, new_title) ==
    LET user_message_index == find_first_user_message_index(lines)
    IN [lines EXCEPT ![user_message_index].text = new_message(new_title, @)]

Missing == [exists |-> FALSE, lines |-> <<>>]
Holding(lines) == [exists |-> TRUE, lines |-> lines]

----------------------------------------------------------------------------
(* Specification: a session file renamed while its provider appends *)

MaxAppends == 1
MaxCalls == 2

\* The texts of the first user message.
Texts ==
    { <<"a">>, <<" ", "a">>, <<"[", "a">>, <<"[", "a", "]", " ", "b">>,
      <<"[", "]", "a">> }

\* The titles of a call; reset_session_native_name passes the empty one.
NewTitles == { <<>>, <<"t">>, <<" ", "t", " ">>, <<"t", "]">> }

RenameFrame ==
    UNCHANGED <<mergeVars, durationVars, usageVars, sessionVars, statsVars, loadVars, tokenVars, partVars, toolVars, catalogVars, searchVars, metaVars, scanVars>>

InitRename ==
    /\ platform \in {"unix", "windows"}
    /\ \E text \in Texts, lead \in {<<>>, <<SessionRecord("user", TRUE, <<"m">>)>>} :
          /\ written = lead \o <<SessionRecord("user", FALSE, text)>>
          /\ session_file = Holding(written)
    /\ temp_file = Missing
    /\ rename_call = [pc |-> "idle"]
    /\ ops = <<>>
    /\ MergeIdle
    /\ DurationIdle
    /\ UsageIdle
    /\ SessionIdle
    /\ StatsIdle
    /\ LoadIdle
    /\ TokenIdle
    /\ PartsIdle
    /\ ToolsIdle
    /\ CatalogIdle
    /\ SearchIdle
    /\ MetadataIdle
    /\ ScanIdle

\* The call returns: its title, its result, the session file it read.
Return(result) ==
    /\ ops' = Append(ops, [title |-> rename_call.title, result |-> result,
                           read |-> rename_call.read])
    /\ rename_call' = [pc |-> "idle"]

\* The provider appends a record to the session file.
AppendRecord ==
    /\ session_file.exists
    /\ Len(written) < 2 + MaxAppends
    /\ LET record == SessionRecord("assistant", FALSE, <<"r">>)
       IN /\ session_file' = Holding(Append(session_file.lines, record))
          /\ written' = Append(written, record)
    /\ UNCHANGED <<platform, temp_file, rename_call, ops>>
    /\ RenameFrame

\* Steps 1 to 11 of rename_session_native: the file is read and the first
\* user message retitled in memory.
ReadLines ==
    /\ rename_call.pc = "idle"
    /\ Len(ops) < MaxCalls
    /\ session_file.exists
    /\ \E new_title \in NewTitles :
          rename_call' = [pc |-> "write", title |-> new_title,
                          read |-> session_file.lines,
                          lines |-> Retitled(session_file.lines, new_title)]
    /\ UNCHANGED <<platform, session_file, temp_file, written, ops>>
    /\ RenameFrame

\* Step 12: the temporary file is created and the lines written; an I/O
\* error leaves the lines written so far and returns.
WriteTemp ==
    /\ rename_call.pc = "write"
    /\ \/ /\ temp_file' = Holding(rename_call.lines)
          /\ rename_call' = [rename_call EXCEPT !.pc =
                                IF platform = "windows" THEN "remove" ELSE "rename"]
          /\ UNCHANGED ops
       \/ /\ \E n \in 0..(Len(rename_call.lines) - 1) :
                temp_file' = Holding(SubSeq(rename_call.lines, 1, n))
          /\ Return("err")
    /\ UNCHANGED <<platform, session_file, written>>
    /\ RenameFrame

\* Step 13 on Windows: the session file is removed first.
RemoveFile ==
    /\ rename_call.pc = "remove"
    /\ \/ /\ session_file' = Missing
          /\ rename_call' = [rename_call EXCEPT !.pc = "rename"]
          /\ UNCHANGED ops
       \/ /\ Return("err")
          /\ UNCHANGED session_file
    /\ UNCHANGED <<platform, temp_file, written>>
    /\ RenameFrame

\* Step 13: fs::rename of the temporary file over the session file.
RenameTemp ==
    /\ rename_call.pc = "rename"
    /\ \/ /\ session_file' = temp_file
          /\ temp_file' = Missing
          /\ Return("ok")
       \/ /\ Return("err")
          /\ UNCHANGED <<session_file, temp_file>>
    /\ UNCHANGED <<platform, written>>
    /\ RenameFrame

NextRename == AppendRecord \/ ReadLines \/ WriteTemp \/ RemoveFile \/ RenameTemp

SpecRename == InitRename /\ [][NextRename]_vars

----------------------------------------------------------------------------
(* Claims about rename_session_native *)

IsPrefixOf(short, long) ==
    Len(short) <= Len(long) /\ SubSeq(long, 1, Len(short)) = short

\* C23: the session file is there at every moment, whole, and after a call
\* that failed it still starts with the records the call read (the provider
\* may have appended more).
C23_SessionFileIsPreviousOrNew ==
    /\ session_file.exists
    /\ (ops # <<>> /\ ops[Len(ops)].result = "err")
          => IsPrefixOf(ops[Len(ops)].read, session_file.lines)

\* C28: the session file holds every record the provider wrote, in order,
\* each unchanged but the first non-meta user message.
C28_OnlyTheFirstUserMessageChanges ==
    session_file.exists =>
       /\ Len(session_file.lines) = Len(written)
       /\ \A i \in 1..Len(written) :
             i # find_first_user_message_index(written)
                => session_file.lines[i] = written[i]

\* The last two calls were one with a title that returned success, then a
\* reset that did, and no call is running.
RenamedThenReset ==
    /\ Len(ops) >= 2
    /\ rename_call.pc = "idle"
    /\ ops[Len(ops) - 1].result = "ok" /\ ops[Len(ops) - 1].title # <<>>
    /\ ops[Len(ops)].result = "ok" /\ ops[Len(ops)].title = <<>>

FirstUserText(lines) == lines[find_first_user_message_index(lines)].text

\* The text the first user message had when the rename read the file.
TextBeforeRename == FirstUserText(ops[Len(ops) - 1].read)

\* C29: after a rename with a non-empty title and a reset, the first user
\* message has the text it had before the rename.
C29_ResetRestoresTheText ==
    RenamedThenReset => FirstUserText(session_file.lines) = TextBeforeRename

\* A text strip_title_prefix leaves alone and that does not start with
\* whitespace.
Unbracketed(text) ==
    /\ strip_title_prefix(text) = text
    /\ trim_start(text) = text

\* C29, amended: the same, for a text that has no bracket prefix and no
\* leading whitespace and a title without ']'.
C29_ResetRestoresAnUnbracketedText ==
    (/\ RenamedThenReset
     /\ Unbracketed(TextBeforeRename)
     /\ find(ops[Len(ops) - 1].title, "]") = 0)
       => FirstUserText(session_file.lines) = TextBeforeRename

\* The text "[a" was renamed with the title " t " and reset.
C29_Witness ==
    /\ RenamedThenReset
    /\ ops[Len(ops) - 1].title = <<" ", "t", " ">>
    /\ TextBeforeRename = <<"[", "a">>
    /\ FirstUserText(ops[Len(ops)].read) = <<"[", "t", "]", " ", "[", "a">>
    /\ FirstUserText(session_file.lines) = <<"[", "a">>

----------------------------------------------------------------------------
(* Claim about the ids of a session's message list *)

UniqueIds(list) ==
    \A j, k \in 1..Len(list) : list[j].uuid = list[k].uuid => j = k

\* C21: no two messages of a list load_session_messages returns, or of a
\* page, have the same id.
C21_IdsAreUniqueInTheMessageList ==
    /\ \A n \in 1..Len(history) : UniqueIds(history[n])
    /\ response.command = "load_session_messages_paginated" =>
          UniqueIds(response.messages)

----------------------------------------------------------------------------
(* commands/metadata.rs and server/handlers.rs: the metadata updates *)

\* The key has no entry in the map.
NoEntry == "absent"
\* SessionMetadata or ProjectMetadata for which is_empty() holds.
EmptyUpdate == "empty"

MetaSessionIds == {"s1", "s2"}
MetaProjectPaths == {"p1"}

\* UserMetadata: the sessions and the projects maps and the settings.
UserMetadata(sessions, projects, settings) ==
    [sessions |-> sessions, projects |-> projects, settings |-> settings]

\* UserMetadata::new().
UserMetadata_new ==
    UserMetadata([s \in MetaSessionIds |-> NoEntry], [q \in MetaProjectPaths |-> NoEntry],
                 "default")

\* Mutex<Option<UserMetadata>>: None, or Some(metadata).
NotCached == [cached |-> FALSE]
Cached(metadata) == [cached |-> TRUE, metadata |-> metadata]

\* cached.get_or_insert_with(UserMetadata::new).
get_or_insert_with_new(cached) == IF cached.cached THEN cached.metadata ELSE UserMetadata_new

\* The change an update makes to the cached metadata under the lock: insert,
\* remove for an empty update, or the settings replaced.
apply_update(metadata, update) ==
    IF update.kind = "session"
    THEN [metadata EXCEPT !.sessions[update.key] =
             IF update.value = EmptyUpdate THEN NoEntry ELSE update.value]
    ELSE IF update.kind = "project"
    THEN [metadata EXCEPT !.projects[update.key] =
             IF update.value = EmptyUpdate THEN NoEntry ELSE update.value]
    ELSE [metadata EXCEPT !.settings = update.value]

NoFile == [exists |-> FALSE]
Stored(metadata) == [exists |-> TRUE, metadata |-> metadata]

----------------------------------------------------------------------------
(* Specification: metadata updates run side by side *)

MaxUpdates == 2

MetadataUpdates ==
    [kind : {"session"}, key : MetaSessionIds, value : {"named", EmptyUpdate}]
       \cup [kind : {"project"}, key : MetaProjectPaths, value : {"hidden", EmptyUpdate}]
       \cup [kind : {"settings"}, key : {"settings"}, value : {"dark"}]

MetadataFrame ==
    UNCHANGED <<mergeVars, durationVars, usageVars, sessionVars, statsVars, loadVars, tokenVars, partVars, toolVars, catalogVars, searchVars, renameVars, scanVars>>

InitMetadata ==
    /\ \/ /\ cache = NotCached
          /\ user_data = NoFile
       \/ \E loaded \in {UserMetadata_new, apply_update(UserMetadata_new, [kind |-> "session", key |-> "s1", value |-> "named"])} :
             /\ cache = Cached(loaded)
             /\ user_data = Stored(loaded)
    /\ user_data_tmp = NoFile
    /\ updates = <<>>
    /\ MergeIdle
    /\ DurationIdle
    /\ UsageIdle
    /\ SessionIdle
    /\ StatsIdle
    /\ LoadIdle
    /\ TokenIdle
    /\ PartsIdle
    /\ ToolsIdle
    /\ CatalogIdle
    /\ SearchIdle
    /\ RenameIdle
    /\ ScanIdle

\* A command or a handler is called with an update.
StartUpdate ==
    /\ Len(updates) < MaxUpdates
    /\ \E update \in MetadataUpdates, via \in {"command", "handler"} :
          updates' = Append(updates, [pc |-> "mutate", via |-> via, update |-> update])
    /\ UNCHANGED <<cache, user_data, user_data_tmp>>
    /\ MetadataFrame

\* The first critical section: the cache is changed in place. The handler
\* clones the metadata out before it releases the lock; the command drops
\* the lock and takes it again to clone.
MutateCached ==
    /\ \E c \in 1..Len(updates) :
          /\ updates[c].pc = "mutate"
          /\ LET metadata == apply_update(get_or_insert_with_new(cache), updates[c].update)
             IN /\ cache' = Cached(metadata)
                /\ updates' =
                      [updates EXCEPT ![c] =
                          IF updates[c].via = "handler"
                          THEN [pc |-> "write", via |-> "handler",
                                update |-> updates[c].update, metadata |-> metadata]
                          ELSE [updates[c] EXCEPT !.pc = "clone"]]
    /\ UNCHANGED <<user_data, user_data_tmp>>
    /\ MetadataFrame

\* The second critical section of a command: the cached metadata is cloned.
CloneCached ==
    /\ \E c \in 1..Len(updates) :
          /\ updates[c].pc = "clone"
          /\ updates' =
                [updates EXCEPT ![c] =
                    [pc |-> "write", via |-> "command", update |-> updates[c].update,
                     metadata |-> get_or_insert_with_new(cache)]]
    /\ UNCHANGED <<cache, user_data, user_data_tmp>>
    /\ MetadataFrame

\* The metadata is written to the temporary file, or the write fails.
WriteUserDataTmp ==
    /\ \E c \in 1..Len(updates) :
          /\ updates[c].pc = "write"
          /\ \/ /\ user_data_tmp' = Stored(updates[c].metadata)
                /\ updates' = [updates EXCEPT ![c].pc = "rename"]
             \/ /\ updates' = [updates EXCEPT ![c].pc = "err"]
                /\ UNCHANGED user_data_tmp
    /\ UNCHANGED <<cache, user_data>>
    /\ MetadataFrame

\* fs::rename of the temporary file over user-data.json; it fails when
\* another update has renamed the temporary file away.
RenameUserDataTmp ==
    /\ \E c \in 1..Len(updates) :
          /\ updates[c].pc = "rename"
          /\ IF user_data_tmp.exists
             THEN /\ user_data' = user_data_tmp
                  /\ user_data_tmp' = NoFile
                  /\ updates' = [updates EXCEPT ![c].pc =
                                    IF updates[c].via = "command" THEN "replace" ELSE "ok"]
             ELSE /\ updates' = [updates EXCEPT ![c].pc = "err"]
                  /\ UNCHANGED <<user_data, user_data_tmp>>
    /\ UNCHANGED cache
    /\ MetadataFrame

\* The last critical section of save_user_metadata: the cache is replaced
\* by the metadata that was saved.
ReplaceCached ==
    /\ \E c \in 1..Len(updates) :
          /\ updates[c].pc = "replace"
          /\ cache' = Cached(updates[c].metadata)
          /\ updates' = [updates EXCEPT ![c].pc = "ok"]
    /\ UNCHANGED <<user_data, user_data_tmp>>
    /\ MetadataFrame

NextMetadata ==
    \/ StartUpdate
    \/ MutateCached
    \/ CloneCached
    \/ WriteUserDataTmp
    \/ RenameUserDataTmp
    \/ ReplaceCached

SpecMetadata == InitMetadata /\ [][NextMetadata]_vars

----------------------------------------------------------------------------
(* Claim about the metadata updates *)

\* Two updates ran and both returned success.
BothSucceeded ==
    /\ Len(updates) = 2
    /\ \A c \in 1..Len(updates) : updates[c].pc = "ok"

\* The metadata shows the update: its entry, or no entry for an empty one.
Shows(metadata, update) == apply_update(metadata, update) = metadata

\* The other update wrote the same entry.
Overwritten(c) ==
    \E d \in 1..Len(updates) :
       /\ d # c
       /\ updates[d].update.kind = updates[c].update.kind
       /\ updates[d].update.key = updates[c].update.key

\* C27: after two updates that both returned success, the cached metadata
\* and the file are equal and show both updates.
C27_NoUpdateIsLost ==
    BothSucceeded =>
       /\ cache.cached
       /\ user_data = Stored(cache.metadata)
       /\ \A c \in 1..Len(updates) :
             ~Overwritten(c) => Shows(cache.metadata, updates[c].update)

----------------------------------------------------------------------------
(* commands/stats.rs and providers: the files a provider statistics pass *)
(* opens                                                                  *)

\* A file or a directory: it can be opened and read, it cannot, or (a
\* directory) it is not there.
Readable == "readable"
Failing == "failing"
NoDir == "absent"

Ok(value) == [ok |-> TRUE, value |-> value]
Err == [ok |-> FALSE]

\* A Codex session: its rollout file and the messages its lines give.
CodexRollout(rollout_file, message_count) ==
    [file |-> rollout_file, message_count |-> message_count]

\* An OpenCode message: its file under storage/message/{session}, the
\* directory storage/part/{message} and the part files in it.
MessageFile(message_file, parts_dir, part_files) ==
    [file |-> message_file, parts_dir |-> parts_dir, part_files |-> part_files]

\* An OpenCode session: its file under storage/session/{project}, the
\* directory storage/message/{session} and the message files in it.
OpenCodeSession(session_file_state, messages_dir, message_files) ==
    [file |-> session_file_state, messages_dir |-> messages_dir,
     message_files |-> message_files]

\* load_sessions of either provider: a session whose file cannot be read is
\* left out of the list.
load_sessions(sessions) ==
    SelectSeq([i \in 1..Len(sessions) |-> i], LAMBDA i : sessions[i].file = Readable)

\* read_message_parts: the parts of the files that can be read, or the
\* error of fs::read_dir.
read_message_parts(message_file) ==
    IF message_file.parts_dir = Failing THEN Err
    ELSE Ok(Len(SelectSeq(message_file.part_files, LAMBDA f : f = Readable)))

\* providers/opencode.rs load_messages from the message file `from` on.
RECURSIVE OpenCodeMessagesFrom(_, _, _)
OpenCodeMessagesFrom(loaded, message_files, from) ==
    IF from > Len(message_files) THEN Ok(loaded)
    ELSE IF message_files[from].file # Readable
    THEN OpenCodeMessagesFrom(loaded, message_files, from + 1)
    ELSE IF message_files[from].parts_dir = NoDir
    THEN OpenCodeMessagesFrom(Append(loaded, [parts |-> 0]), message_files, from + 1)
    ELSE IF ~read_message_parts(message_files[from]).ok THEN Err
    ELSE OpenCodeMessagesFrom(
            Append(loaded, [parts |-> read_message_parts(message_files[from]).value]),
            message_files, from + 1)

opencode_load_messages(session) ==
    IF session.messages_dir = NoDir THEN Ok(<<>>)
    ELSE IF session.messages_dir = Failing THEN Err
    ELSE OpenCodeMessagesFrom(<<>>, session.message_files, 1)

\* providers/codex.rs load_messages: the file is opened and mapped.
codex_open_and_load(session) ==
    IF session.file # Readable THEN Err
    ELSE Ok([k \in 1..session.message_count |-> [parts |-> 0]])

load_provider_messages_for_stats(p, session) ==
    IF p = "codex" THEN codex_open_and_load(session) ELSE opencode_load_messages(session)

\* The loop of get_provider_project_token_stats and of
\* get_provider_project_stats_summary over the listed sessions: the number
\* of sessions with a message, or the first error of a load.
RECURSIVE ProviderPassFrom(_, _, _, _, _)
ProviderPassFrom(p, sessions, listed, from, counted) ==
    IF from > Len(listed) THEN Ok(counted)
    ELSE LET loaded == load_provider_messages_for_stats(p, sessions[listed[from]])
         IN IF ~loaded.ok THEN Err
            ELSE ProviderPassFrom(p, sessions, listed, from + 1,
                                  IF loaded.value = <<>> THEN counted ELSE counted + 1)

get_provider_project_token_stats(p, sessions, listed) ==
    [pass |-> "token_stats", result |-> ProviderPassFrom(p, sessions, listed, 1, 0)]

get_provider_project_stats_summary(p, sessions, listed) ==
    [pass |-> "summary", result |-> ProviderPassFrom(p, sessions, listed, 1, 0)]

----------------------------------------------------------------------------
(* Specification: a statistics pass over a provider project *)

MaxStored == 2      \* sessions of the project

StoredSessions(p) ==
    IF p = "codex"
    THEN { CodexRollout(Readable, 1), CodexRollout(Readable, 0), CodexRollout(Failing, 1) }
    ELSE { OpenCodeSession(Readable, Readable, <<MessageFile(Readable, NoDir, <<>>)>>),
           OpenCodeSession(Readable, Readable, <<MessageFile(Failing, NoDir, <<>>)>>),
           OpenCodeSession(Readable, Readable,
                           <<MessageFile(Readable, Readable, <<Failing, Readable>>)>>),
           OpenCodeSession(Readable, Readable,
                           <<MessageFile(Readable, Failing, <<Readable>>)>>),
           OpenCodeSession(Readable, Failing, <<MessageFile(Readable, NoDir, <<>>)>>),
           OpenCodeSession(Readable, NoDir, <<>>),
           OpenCodeSession(Failing, Readable, <<MessageFile(Readable, NoDir, <<>>)>>) }

ScanFrame ==
    UNCHANGED <<mergeVars, durationVars, usageVars, sessionVars, statsVars, loadVars, tokenVars, partVars, toolVars, catalogVars, searchVars, renameVars, metaVars>>

InitScan ==
    /\ scan_provider \in {"codex", "opencode"}
    /\ scan_store = <<>>
    /\ scan_listed = [done |-> FALSE]
    /\ scan_result = [done |-> FALSE]
    /\ MergeIdle
    /\ DurationIdle
    /\ UsageIdle
    /\ SessionIdle
    /\ StatsIdle
    /\ LoadIdle
    /\ TokenIdle
    /\ PartsIdle
    /\ ToolsIdle
    /\ CatalogIdle
    /\ SearchIdle
    /\ RenameIdle
    /\ MetadataIdle

\* The provider writes a session.
StoreSession ==
    /\ ~scan_listed.done
    /\ Len(scan_store) < MaxStored
    /\ \E session \in StoredSessions(scan_provider) :
          scan_store' = Append(scan_store, session)
    /\ UNCHANGED <<scan_provider, scan_listed, scan_result>>
    /\ ScanFrame

\* The pass starts: load_provider_sessions_for_stats lists the sessions.
ListSessions ==
    /\ ~scan_listed.done
    /\ scan_listed' = [done |-> TRUE, sessions |-> load_sessions(scan_store)]
    /\ UNCHANGED <<scan_provider, scan_store, scan_result>>
    /\ ScanFrame

\* A session file of the list becomes unreadable (removed, or its
\* permissions changed) before the pass loads it.
LoseSessionFile ==
    /\ scan_listed.done
    /\ ~scan_result.done
    /\ \E i \in 1..Len(scan_store) :
          /\ scan_store[i].file = Readable
          /\ scan_store' = [scan_store EXCEPT ![i].file = Failing]
    /\ UNCHANGED <<scan_provider, scan_listed, scan_result>>
    /\ ScanFrame

\* The pass loads the messages of each listed session and returns.
LoadListedSessions ==
    /\ scan_listed.done
    /\ ~scan_result.done
    /\ \E returned \in { get_provider_project_token_stats(scan_provider, scan_store,
                                                          scan_listed.sessions),
                         get_provider_project_stats_summary(scan_provider, scan_store,
                                                            scan_listed.sessions) } :
          scan_result' = [done |-> TRUE, pass |-> returned.pass, result |-> returned.result]
    /\ UNCHANGED <<scan_provider, scan_store, scan_listed>>
    /\ ScanFrame

NextScan == StoreSession \/ ListSessions \/ LoseSessionFile \/ LoadListedSessions

SpecScan == InitScan /\ [][NextScan]_vars

----------------------------------------------------------------------------
(* Claim about the files a pass cannot read *)

\* The session has a message in a file that can be read.
HasReadableMessage(session) ==
    /\ session.file = Readable
    /\ IF scan_provider = "codex" THEN session.message_count > 0
       ELSE /\ session.messages_dir = Readable
            /\ \E k \in 1..Len(session.message_files) :
                  session.message_files[k].file = Readable

\* C22: the pass succeeds whatever file or directory of a session cannot be
\* read, and counts the sessions that have a message in a readable file.
C22_UnreadableFileIsSkipped ==
    scan_result.done =>
       /\ scan_result.result.ok
       /\ scan_result.result.value =
             Cardinality({i \in 1..Len(scan_store) : HasReadableMessage(scan_store[i])})

============================================================================
